---------------------------- MODULE Spec2Model ----------------------------
(***************************************************************************)
(* A model of pyplutchik (src/pyplutchik.py): the emotion and dyad         *)
(* registries, the petal geometry, and the composition routine plutchik()  *)
(* seen as a sequential program that appends draw operations to a surface. *)
(*                                                                         *)
(* Numbers are exact rationals <<n, d>> (d > 0, lowest terms), so a        *)
(* division by the normalization reference is a real division.             *)
(***************************************************************************)
EXTENDS Integers, Sequences, FiniteSets, TLC

(***************************************************************************)
(* Rational arithmetic                                                     *)
(***************************************************************************)
Abs(x) == IF x < 0 THEN -x ELSE x

GCD[a \in Nat, b \in Nat] == IF b = 0 THEN a ELSE GCD[b, a % b]

\* n/d in lowest terms with a positive denominator (d # 0)
RatF[n \in Int, d \in Int] ==
    LET g == GCD[Abs(n), Abs(d)]
    IN  IF d < 0 THEN <<(-n) \div g, (-d) \div g>> ELSE <<n \div g, d \div g>>

Rat(n, d) == RatF[n, d]

R(n) == <<n, 1>>

Q == Int \X Int

\* fractions in lowest terms go in; common factors are divided out before any
\* product is formed, so that the intermediate integers stay small
RAddF[a \in Q, b \in Q] ==
    LET g == GCD[a[2], b[2]]
    IN  RatF[a[1] * (b[2] \div g) + b[1] * (a[2] \div g), (a[2] \div g) * b[2]]

RSubF[a \in Q, b \in Q] == RAddF[a, <<-b[1], b[2]>>]

RMulF[a \in Q, b \in Q] ==
    LET g1 == GCD[Abs(a[1]), b[2]]
        g2 == GCD[Abs(b[1]), a[2]]
    IN  RatF[(a[1] \div g1) * (b[1] \div g2), (a[2] \div g2) * (b[2] \div g1)]

RDivF[a \in Q, b \in Q] ==
    RMulF[a, IF b[1] < 0 THEN <<-b[2], -b[1]>> ELSE <<b[2], b[1]>>]

RLtF[a \in Q, b \in Q] ==
    LET g == GCD[a[2], b[2]]
    IN  a[1] * (b[2] \div g) < b[1] * (a[2] \div g)

RAdd(a, b) == RAddF[a, b]
RSub(a, b) == RSubF[a, b]
RMul(a, b) == RMulF[a, b]
RDiv(a, b) == RDivF[a, b]
RLt(a, b)  == RLtF[a, b]
RZero(a)   == a[1] = 0

\* a and b differ by a whole number of turns (angles in degrees)
SameDirection(a, b) ==
    LET d == RSub(a, b) IN d[2] = 1 /\ d[1] % 360 = 0

(***************************************************************************)
(* _rotate_point.  The angles of the program are multiples of 22.5         *)
(* degrees, whose sines and cosines lie in the field Q(sqrt 2, c) with     *)
(* c = sqrt(2 + sqrt 2): a coordinate is <<a0, a1, a2, a3>>, standing for  *)
(* a0 + a1*sqrt2 + a2*c + a3*c*sqrt2, every ai an exact fraction.          *)
(***************************************************************************)
F4 == Q \X Q \X Q \X Q

Coord(r) == <<r, R(0), R(0), R(0)>>

FAddF[a \in F4, b \in F4] ==
    <<RAddF[a[1], b[1]], RAddF[a[2], b[2]], RAddF[a[3], b[3]], RAddF[a[4], b[4]]>>

FNegF[a \in F4] ==
    <<RSubF[R(0), a[1]], RSubF[R(0), a[2]], RSubF[R(0), a[3]], RSubF[R(0), a[4]]>>

\* (p + q*sqrt2) * (u + v*sqrt2)
S2MulF[a \in Q \X Q, b \in Q \X Q] ==
    <<RAddF[RMulF[a[1], b[1]], RMulF[R(2), RMulF[a[2], b[2]]]],
      RAddF[RMulF[a[1], b[2]], RMulF[a[2], b[1]]]>>

S2AddF[a \in Q \X Q, b \in Q \X Q] == <<RAddF[a[1], b[1]], RAddF[a[2], b[2]]>>

\* (A0 + A1*c) * (B0 + B1*c) with c*c = 2 + sqrt2
FMulF[a \in F4, b \in F4] ==
    IF RZero(b[2]) /\ RZero(b[3]) /\ RZero(b[4])
    THEN <<RMulF[a[1], b[1]], RMulF[a[2], b[1]], RMulF[a[3], b[1]], RMulF[a[4], b[1]]>>
    ELSE
    LET A0 == <<a[1], a[2]>>
        A1 == <<a[3], a[4]>>
        B0 == <<b[1], b[2]>>
        B1 == <<b[3], b[4]>>
        lo == S2AddF[S2MulF[A0, B0], S2MulF[S2MulF[A1, B1], <<R(2), R(1)>>]]
        hi == S2AddF[S2MulF[A0, B1], S2MulF[A1, B0]]
    IN  <<lo[1], lo[2], hi[1], hi[2]>>

FAdd(a, b) == FAddF[a, b]
FSub(a, b) == FAddF[a, FNegF[b]]
FMul(a, b) == FMulF[a, b]

\* cos of k * 22.5 degrees, k in 0..15
CosStep[k \in 0..15] ==
    CASE k \in {0}      -> <<R(1), R(0), R(0), R(0)>>
      [] k \in {1, 15}  -> <<R(0), R(0), Rat(1, 2), R(0)>>
      [] k \in {2, 14}  -> <<R(0), Rat(1, 2), R(0), R(0)>>
      [] k \in {3, 13}  -> <<R(0), R(0), Rat(-1, 2), Rat(1, 2)>>
      [] k \in {4, 12}  -> <<R(0), R(0), R(0), R(0)>>
      [] k \in {5, 11}  -> <<R(0), R(0), Rat(1, 2), Rat(-1, 2)>>
      [] k \in {6, 10}  -> <<R(0), Rat(-1, 2), R(0), R(0)>>
      [] k \in {7, 9}   -> <<R(0), R(0), Rat(-1, 2), R(0)>>
      [] k \in {8}      -> <<R(-1), R(0), R(0), R(0)>>

\* radians(angle) followed by cos and sin: the angle counts in degrees
Steps(angle) == RDiv(angle, Rat(45, 2))[1] % 16
cos(angle)   == CosStep[Steps(angle)]
sin(angle)   == CosStep[(Steps(angle) + 12) % 16]

\* a rotation with the sine negated, which turns clockwise
RotatePointClockwise(point, angle) ==
    << FAdd(FMul(cos(angle), point[1]), FMul(sin(angle), point[2])),
       FSub(FMul(cos(angle), point[2]), FMul(sin(angle), point[1])) >>

_rotate_point(point, angle) ==
    << FSub(FMul(cos(angle), point[1]), FMul(sin(angle), point[2])),
       FAdd(FMul(sin(angle), point[1]), FMul(cos(angle), point[2])) >>

(***************************************************************************)
(* emo_params: the if/elif chain of the eight emotions                     *)
(***************************************************************************)
NoColor == "none"
NoPair  == <<"none", "none">>

\* what a registry function hands back: fn names the function; ok is FALSE when
\* it raised; kind is the third value of emo_params, the level of dyad_params
Params(fn, name, color, cmap, emos, angle, kind) ==
    [ok |-> TRUE, fn |-> fn, name |-> name, color |-> color, cmap |-> cmap,
     emos |-> emos, angle |-> angle, kind |-> kind]

Raises(fn, name) ==
    [ok |-> FALSE, fn |-> fn, name |-> name, color |-> NoColor, cmap |-> NoPair,
     emos |-> NoPair, angle |-> R(0), kind |-> -1]

E(emotion, color, angle) == Params("emo_params", emotion, color, NoPair, NoPair, R(angle), 0)

\* the variant of the chain that turns the flower counter-clockwise
emo_params_flipped(emotion) ==
    IF emotion = "joy" THEN E(emotion, "gold", 0)
    ELSE IF emotion = "trust" THEN E(emotion, "olivedrab", 45)
    ELSE IF emotion = "fear" THEN E(emotion, "forestgreen", 90)
    ELSE IF emotion = "surprise" THEN E(emotion, "skyblue", 135)
    ELSE IF emotion = "sadness" THEN E(emotion, "dodgerblue", 180)
    ELSE IF emotion = "disgust" THEN E(emotion, "slateblue", 225)
    ELSE IF emotion = "anger" THEN E(emotion, "orangered", 270)
    ELSE IF emotion = "anticipation" THEN E(emotion, "darkorange", 315)
    ELSE Raises("emo_params", emotion)

\* a chain without its else branch: any other name is drawn like joy
emo_params_lenient(emotion) ==
    IF emotion = "trust" THEN E(emotion, "olivedrab", -45)
    ELSE IF emotion = "fear" THEN E(emotion, "forestgreen", -90)
    ELSE IF emotion = "surprise" THEN E(emotion, "skyblue", -135)
    ELSE IF emotion = "sadness" THEN E(emotion, "dodgerblue", -180)
    ELSE IF emotion = "disgust" THEN E(emotion, "slateblue", -225)
    ELSE IF emotion = "anger" THEN E(emotion, "orangered", -270)
    ELSE IF emotion = "anticipation" THEN E(emotion, "darkorange", -315)
    ELSE E(emotion, "gold", 0)

\* returns (color, angle, 0) or raises "Bad input: ... is not an accepted emotion"
emo_params(emotion) ==
    IF emotion = "joy" THEN E(emotion, "gold", 0)
    ELSE IF emotion = "trust" THEN E(emotion, "olivedrab", -45)
    ELSE IF emotion = "fear" THEN E(emotion, "forestgreen", -90)
    ELSE IF emotion = "surprise" THEN E(emotion, "skyblue", -135)
    ELSE IF emotion = "sadness" THEN E(emotion, "dodgerblue", -180)
    ELSE IF emotion = "disgust" THEN E(emotion, "slateblue", -225)
    ELSE IF emotion = "anger" THEN E(emotion, "orangered", -270)
    ELSE IF emotion = "anticipation" THEN E(emotion, "darkorange", -315)
    ELSE Raises("emo_params", emotion)

(***************************************************************************)
(* dyad_params: the if/elif chain of the dyads, family by family; each     *)
(* part hands control to `otherwise` when none of its tests matches        *)
(***************************************************************************)
HalfStep == RDiv(R(-45), R(2))        \* the source's  -45 / 2

D(dyad, cmap, angle, emos, level) == Params("dyad_params", dyad, NoColor, cmap, emos, angle, level)

PrimaryDyads(dyad, otherwise) ==
    IF dyad = "love" THEN D(dyad, <<"gold", "olivedrab">>, HalfStep, <<"joy", "trust">>, 1)
    ELSE IF dyad = "submission" THEN D(dyad, <<"olivedrab", "forestgreen">>, RAdd(HalfStep, R(-45)), <<"trust", "fear">>, 1)
    ELSE IF dyad = "alarm" THEN D(dyad, <<"forestgreen", "skyblue">>, RAdd(HalfStep, R(-90)), <<"fear", "surprise">>, 1)
    ELSE IF dyad = "disappointment" THEN D(dyad, <<"skyblue", "dodgerblue">>, RAdd(HalfStep, R(-135)), <<"surprise", "sadness">>, 1)
    ELSE IF dyad = "remorse" THEN D(dyad, <<"dodgerblue", "slateblue">>, RAdd(HalfStep, R(-180)), <<"sadness", "disgust">>, 1)
    ELSE IF dyad = "contempt" THEN D(dyad, <<"slateblue", "orangered">>, RAdd(HalfStep, R(-225)), <<"disgust", "anger">>, 1)
    ELSE IF dyad = "aggressiveness" THEN D(dyad, <<"orangered", "darkorange">>, RAdd(HalfStep, R(-270)), <<"anger", "anticipation">>, 1)
    ELSE IF dyad = "optimism" THEN D(dyad, <<"darkorange", "gold">>, RAdd(HalfStep, R(-315)), <<"anticipation", "joy">>, 1)
    ELSE otherwise

\* the secondary dyads with the test for 'hope' repeating the one for 'pride'
SecondaryDyadsShadowed(dyad, otherwise) ==
    IF dyad = "guilt" THEN D(dyad, <<"gold", "forestgreen">>, R(-45), <<"joy", "fear">>, 2)
    ELSE IF dyad = "curiosity" THEN D(dyad, <<"olivedrab", "skyblue">>, R(-90), <<"trust", "surprise">>, 2)
    ELSE IF dyad = "despair" THEN D(dyad, <<"forestgreen", "dodgerblue">>, R(-135), <<"fear", "sadness">>, 2)
    ELSE IF dyad = "unbelief" THEN D(dyad, <<"skyblue", "slateblue">>, R(-180), <<"surprise", "disgust">>, 2)
    ELSE IF dyad = "envy" THEN D(dyad, <<"dodgerblue", "orangered">>, R(-225), <<"sadness", "anger">>, 2)
    ELSE IF dyad = "cynism" THEN D(dyad, <<"slateblue", "darkorange">>, R(-270), <<"disgust", "anticipation">>, 2)
    ELSE IF dyad = "pride" THEN D(dyad, <<"orangered", "gold">>, R(-315), <<"anger", "joy">>, 2)
    ELSE IF dyad = "pride" THEN D(dyad, <<"darkorange", "olivedrab">>, R(0), <<"anticipation", "trust">>, 2)
    ELSE otherwise

SecondaryDyads(dyad, otherwise) ==
    IF dyad = "guilt" THEN D(dyad, <<"gold", "forestgreen">>, R(-45), <<"joy", "fear">>, 2)
    ELSE IF dyad = "curiosity" THEN D(dyad, <<"olivedrab", "skyblue">>, R(-90), <<"trust", "surprise">>, 2)
    ELSE IF dyad = "despair" THEN D(dyad, <<"forestgreen", "dodgerblue">>, R(-135), <<"fear", "sadness">>, 2)
    ELSE IF dyad = "unbelief" THEN D(dyad, <<"skyblue", "slateblue">>, R(-180), <<"surprise", "disgust">>, 2)
    ELSE IF dyad = "envy" THEN D(dyad, <<"dodgerblue", "orangered">>, R(-225), <<"sadness", "anger">>, 2)
    ELSE IF dyad = "cynism" THEN D(dyad, <<"slateblue", "darkorange">>, R(-270), <<"disgust", "anticipation">>, 2)
    ELSE IF dyad = "pride" THEN D(dyad, <<"orangered", "gold">>, R(-315), <<"anger", "joy">>, 2)
    ELSE IF dyad = "hope" THEN D(dyad, <<"darkorange", "olivedrab">>, R(0), <<"anticipation", "trust">>, 2)
    ELSE otherwise

\* the tertiary dyads placed like the primary ones, a quarter step short
TertiaryDyadsAsPrimary(dyad, otherwise) ==
    IF dyad = "delight" THEN D(dyad, <<"gold", "skyblue">>, HalfStep, <<"joy", "surprise">>, 3)
    ELSE IF dyad = "sentimentality" THEN D(dyad, <<"olivedrab", "dodgerblue">>, RAdd(HalfStep, R(-45)), <<"trust", "sadness">>, 3)
    ELSE IF dyad = "shame" THEN D(dyad, <<"forestgreen", "slateblue">>, RAdd(HalfStep, R(-90)), <<"fear", "disgust">>, 3)
    ELSE IF dyad = "outrage" THEN D(dyad, <<"skyblue", "orangered">>, RAdd(HalfStep, R(-135)), <<"surprise", "anger">>, 3)
    ELSE IF dyad = "pessimism" THEN D(dyad, <<"dodgerblue", "darkorange">>, RAdd(HalfStep, R(-180)), <<"sadness", "anticipation">>, 3)
    ELSE IF dyad = "morbidness" THEN D(dyad, <<"slateblue", "gold">>, RAdd(HalfStep, R(-225)), <<"disgust", "joy">>, 3)
    ELSE IF dyad = "dominance" THEN D(dyad, <<"orangered", "olivedrab">>, RAdd(HalfStep, R(-270)), <<"anger", "trust">>, 3)
    ELSE IF dyad = "anxiety" THEN D(dyad, <<"darkorange", "forestgreen">>, RAdd(HalfStep, R(-315)), <<"anticipation", "fear">>, 3)
    ELSE otherwise

TertiaryDyads(dyad, otherwise) ==
    IF dyad = "delight" THEN D(dyad, <<"gold", "skyblue">>, RAdd(HalfStep, R(-45)), <<"joy", "surprise">>, 3)
    ELSE IF dyad = "sentimentality" THEN D(dyad, <<"olivedrab", "dodgerblue">>, RAdd(HalfStep, R(-90)), <<"trust", "sadness">>, 3)
    ELSE IF dyad = "shame" THEN D(dyad, <<"forestgreen", "slateblue">>, RAdd(HalfStep, R(-135)), <<"fear", "disgust">>, 3)
    ELSE IF dyad = "outrage" THEN D(dyad, <<"skyblue", "orangered">>, RAdd(HalfStep, R(-180)), <<"surprise", "anger">>, 3)
    ELSE IF dyad = "pessimism" THEN D(dyad, <<"dodgerblue", "darkorange">>, RAdd(HalfStep, R(-225)), <<"sadness", "anticipation">>, 3)
    ELSE IF dyad = "morbidness" THEN D(dyad, <<"slateblue", "gold">>, RAdd(HalfStep, R(-270)), <<"disgust", "joy">>, 3)
    ELSE IF dyad = "dominance" THEN D(dyad, <<"orangered", "olivedrab">>, RAdd(HalfStep, R(-315)), <<"anger", "trust">>, 3)
    ELSE IF dyad = "anxiety" THEN D(dyad, <<"darkorange", "forestgreen">>, HalfStep, <<"anticipation", "fear">>, 3)
    ELSE otherwise

\* opposites a quarter turn apart
OppositeDyadsQuarterTurns(dyad, otherwise) ==
    IF dyad = "bittersweetness" THEN D(dyad, <<"gold", "dodgerblue">>, R(0), <<"joy", "sadness">>, 4)
    ELSE IF dyad = "ambivalence" THEN D(dyad, <<"olivedrab", "slateblue">>, R(-90), <<"trust", "disgust">>, 4)
    ELSE IF dyad = "frozenness" THEN D(dyad, <<"forestgreen", "orangered">>, R(-180), <<"fear", "anger">>, 4)
    ELSE IF dyad = "confusion" THEN D(dyad, <<"skyblue", "darkorange">>, R(-270), <<"surprise", "anticipation">>, 4)
    ELSE otherwise

OppositeDyads(dyad, otherwise) ==
    IF dyad = "bittersweetness" THEN D(dyad, <<"gold", "dodgerblue">>, R(0), <<"joy", "sadness">>, 4)
    ELSE IF dyad = "ambivalence" THEN D(dyad, <<"olivedrab", "slateblue">>, R(-45), <<"trust", "disgust">>, 4)
    ELSE IF dyad = "frozenness" THEN D(dyad, <<"forestgreen", "orangered">>, R(-90), <<"fear", "anger">>, 4)
    ELSE IF dyad = "confusion" THEN D(dyad, <<"skyblue", "darkorange">>, R(-135), <<"surprise", "anticipation">>, 4)
    ELSE otherwise

\* returns (emos, cmap, angle, level) or raises "Bad input: ... not an accepted name for a dyad"
dyad_params(dyad) ==
    PrimaryDyads(dyad,
      SecondaryDyads(dyad,
        TertiaryDyads(dyad,
          OppositeDyads(dyad, Raises("dyad_params", dyad)))))

(***************************************************************************)
(* The documentation of dyad_params: the names its docstring lists as      *)
(* possible values, per family                                             *)
(***************************************************************************)
DocumentedDyads ==
    [primary   |-> <<"love", "submission", "alarm", "disappointment", "remorse",
                     "contempt", "aggression", "optimism">>,
     secondary |-> <<"guilt", "curiosity", "despair", "", "envy", "cynism",
                     "pride", "fatalism">>,
     tertiary  |-> <<"delight", "sentimentality", "shame", "outrage", "pessimism",
                     "morbidness", "dominance", "anxiety">>]

Range(f) == {f[i] : i \in DOMAIN f}

\* the names the two error messages enumerate
EmotionNames ==
    {"joy", "trust", "fear", "surprise", "sadness", "disgust", "anger", "anticipation"}

\* one line of dyad_params' error message per family, in the order of the chain
DyadFamilies ==
    << <<"love", "submission", "alarm", "disappointment", "remorse", "contempt",
         "aggressiveness", "optimism">>,
       <<"guilt", "curiosity", "despair", "unbelief", "envy", "cynism", "pride", "hope">>,
       <<"delight", "sentimentality", "shame", "outrage", "pessimism", "morbidness",
         "dominance", "anxiety">>,
       <<"bittersweetness", "ambivalence", "frozenness", "confusion">> >>

DyadNames == UNION {Range(DyadFamilies[l]) : l \in DOMAIN DyadFamilies}

\* names that are in neither registry: other letter cases, intensity variants, typos
ForeignNames == {"Joy", "TRUST", "ecstasy", "serenity", "happiness", "Love"}

Names ==
    EmotionNames \cup DyadNames \cup ForeignNames \cup
    Range(DocumentedDyads.primary) \cup Range(DocumentedDyads.secondary) \cup
    Range(DocumentedDyads.tertiary)

(***************************************************************************)
(* _check_scores_kind                                                      *)
(***************************************************************************)
\* one pass of the loop body: try emo_params(t)[2], except dyad_params(t)[3]
KindOfTag(t) ==
    IF emo_params(t).ok THEN emo_params(t) ELSE dyad_params(t)

\* list(set(sorted(kinds))): small integers come out of a set in ascending order
SortedSeq(S) == [i \in 1..Cardinality(S) |-> CHOOSE x \in S : Cardinality({y \in S : y < x}) = i - 1]

\* a string, as the sequence of its tokens (words, digits, blanks, commas)
Tokens == Seq(STRING)

\* ', '.join([str(a) for a in unique_kinds])
JoinKindsF[ks \in Seq(Int)] ==
    IF Len(ks) = 0 THEN <<>>
    ELSE IF Len(ks) = 1 THEN <<ToString(ks[1])>>
    ELSE <<ToString(ks[1]), ",", " ">> \o JoinKindsF[Tail(ks)]

JoinKinds(ks) == JoinKindsF[ks]

\* str.replace(old, new): every token equal to old becomes the tokens of new
ReplaceF[s \in Tokens, old \in STRING, new \in Tokens] ==
    IF Len(s) = 0 THEN <<>>
    ELSE (IF Head(s) = old THEN new ELSE <<Head(s)>>) \o ReplaceF[Tail(s), old, new]

Replace(s, old, new) == ReplaceF[s, old, new]

\* ' and'.join(s.rsplit(',', 1)): the last comma becomes ' and'
RSplitJoinAndF[s \in Tokens] ==
    LET commas == {i \in DOMAIN s : s[i] = ","}
    IN  IF commas = {} THEN s
        ELSE LET last == CHOOSE i \in commas : \A j \in commas : j <= i
             IN  SubSeq(s, 1, last - 1) \o <<" ", "and">> \o SubSeq(s, last + 1, Len(s))

RSplitJoinAnd(s) == RSplitJoinAndF[s]

\* a message that forgets the replacement of '2'
KindsMessageNoSecondary(unique_kinds) ==
    RSplitJoinAnd(
      Replace(
        Replace(
          Replace(
            Replace(JoinKinds(unique_kinds), "0", <<"emotions">>),
            "1", <<"primary", " ", "dyads">>),
          "3", <<"tertiary", " ", "dyads">>),
        "4", <<"opposite", " ", "emotions">>))

\* unique_kinds_str of the error "Bad input: can't draw {} altogether. ..."
KindsMessage(unique_kinds) ==
    RSplitJoinAnd(
      Replace(
        Replace(
          Replace(
            Replace(
              Replace(JoinKinds(unique_kinds), "0", <<"emotions">>),
              "1", <<"primary", " ", "dyads">>),
            "2", <<"secondary", " ", "dyads">>),
          "3", <<"tertiary", " ", "dyads">>),
        "4", <<"opposite", " ", "emotions">>))

NoError == [type |-> "none", key |-> "", msg |-> <<>>]
Error(type, key, msg) == [type |-> type, key |-> key, msg |-> msg]

\* tags: the keys of `scores` in iteration order.
\* The loop raises at the first tag neither registry accepts; then more than one
\* kind raises the mixed-kinds error; kinds[0] of an empty list is an IndexError.
_check_scores_kind(tags) ==
    LET looked == [i \in DOMAIN tags |-> KindOfTag(tags[i])]
        bad    == {i \in DOMAIN tags : ~looked[i].ok}
        kinds  == [i \in DOMAIN tags |-> looked[i].kind]
        unique_kinds == SortedSeq(Range(kinds))
    IN  IF bad # {}
        THEN LET i == CHOOSE i \in bad : \A j \in bad : i <= j
             IN  [err |-> Error("UnknownName", tags[i], <<looked[i].fn>>), is_emotions |-> FALSE]
        ELSE IF Len(unique_kinds) > 1
        THEN [err |-> Error("MixedKinds", "", KindsMessage(unique_kinds)), is_emotions |-> FALSE]
        ELSE IF Len(kinds) = 0
        THEN [err |-> Error("IndexError", "", <<>>), is_emotions |-> FALSE]
        ELSE [err |-> NoError, is_emotions |-> (kinds[1] = 0)]

(***************************************************************************)
(* Scores and draw operations                                              *)
(***************************************************************************)
\* a score is a scalar or a 3-values iterable
Scalar(r)       == [iter |-> FALSE, v |-> <<r>>]
Triple(a, b, c) == [iter |-> TRUE,  v |-> <<a, b, c>>]

offset == Rat(15, 100)      \* radius of the central neutral circle
step   == Rat(3, 100)       \* the spines' overshoot

NoLens == [h |-> R(0), x |-> R(0), y |-> R(0), r2 |-> R(0), angle |-> R(0)]
NoText == [s |-> "", v |-> R(0)]
NoSpan == <<R(0), R(0)>>
Str(name) == [s |-> name, v |-> R(0)]

\* "{0:.2f}".format(round(x, 2)): x to the nearest hundredth, ties to even
Fmt2(x) ==
    LET n    == x[1] * 100
        q    == n \div x[2]
        rem2 == 2 * (n % x[2])
        up   == rem2 > x[2] \/ (rem2 = x[2] /\ q % 2 = 1)
    IN  [s |-> "%.2f", v |-> Rat(IF up THEN q + 1 ELSE q, 100)]

\* one artist appended to the axes.  size: the length the shape was built from
\* (after normalization); radius: of a circle; z: zorder (matplotlib's defaults are
\* 1 for patches, 2 for lines, 3 for text)
Op(op, key, z, size, radius, geom, alpha, color, text) ==
    [op |-> op, key |-> key, z |-> z, size |-> size, radius |-> radius,
     geom |-> geom, alpha |-> alpha, color |-> color, text |-> text, span |-> NoSpan]

\* an operation that covers an interval: of abscissae in the frame of its petal
\* (a half petal), of angles in degrees from the vertical (an arc, a label)
Spanning(operation, from, to) == [operation EXCEPT !.span = <<from, to>>]

\* a lens whose height is the bare score, without the offset of the neutral circle
LensWithoutOffset(emotion_score, angle, hwr) ==
    LET h == RMul(R(1), emotion_score)
        x == RMul(hwr, emotion_score)
        y == RDiv(h, R(2))
    IN  [h |-> h, x |-> x, y |-> y, r2 |-> RAdd(RMul(x, x), RMul(y, y)), angle |-> angle]

\* the proportions of a petal: two circles of radius sqrt(r2) centred at
\* (x, y) and (-x, y), both rotated by angle
Lens(emotion_score, angle, hwr) ==
    LET h == RAdd(RMul(R(1), emotion_score), offset)
        x == RMul(hwr, emotion_score)
        y == RDiv(h, R(2))
    IN  [h |-> h, x |-> x, y |-> y, r2 |-> RAdd(RMul(x, x), RMul(y, y)), angle |-> angle]

\* x_right, y_right = _rotate_point((x, y), angle), and the left one: the
\* centres of the two circles whose intersection is the petal
Centres(petal) ==
    [right |-> _rotate_point(<<Coord(petal.x), Coord(petal.y)>>, petal.angle),
     left  |-> _rotate_point(<<Coord(RSub(R(0), petal.x)), Coord(petal.y)>>, petal.angle)]

\* the rectangle that cuts one half out of the petal of a dyad: its abscissae
\* run over span (-2x..0 on the left, 0..2x on the right), its ordinates over
\* 0..h, and its corners are rotated by angle
Square(petal, span) ==
    << _rotate_point(<<Coord(span[1]), Coord(R(0))>>, petal.angle),
       _rotate_point(<<Coord(span[1]), Coord(petal.h)>>, petal.angle),
       _rotate_point(<<Coord(span[2]), Coord(petal.h)>>, petal.angle),
       _rotate_point(<<Coord(span[2]), Coord(R(0))>>, petal.angle) >>

\* `if normalize: emotion_score /= normalize`  (False and 0 are both falsy)
Normalized(emotion_score, normalize) ==
    IF ~RZero(normalize) THEN RDiv(emotion_score, normalize) ELSE emotion_score

(***************************************************************************)
(* _polar_coordinates, _neutral_central_circle                             *)
(***************************************************************************)
_polar_coordinates(show_ticklabels) ==
    [k \in 1..6 |->
        Op("guide", "", -20, R(0), RAdd(offset, Rat(20 * (k - 1), 100)), NoLens,
           Rat(3, 10), "grey", NoText)] \o
    (IF show_ticklabels
     THEN [k \in 1..5 |->
             Op("tick_label", "", 8, R(0), RAdd(Rat(2 * k, 10), offset), NoLens,
                R(1), "black", [s |-> "str", v |-> Rat(2 * k, 10)])]
     ELSE <<>>)

\* a neutral circle stacked between the underlays and the colour fills
NeutralCentralCircleUnderFills ==
    << Op("disk", "", 5, R(0), offset, NoLens, R(1), "white", NoText) >>

_neutral_central_circle ==
    << Op("disk", "", 15, R(0), offset, NoLens, R(1), "white", NoText) >>

(***************************************************************************)
(* _outer_border, _petal_shape_emotion, _petal_shape_dyad, _petal_circle   *)
(***************************************************************************)
\* a border that divides by the normalization reference a second time
OuterBorderTwiceNormalized(key, emotion_score, color, angle, highlight, hwr, normalize) ==
    LET s == Normalized(Normalized(emotion_score, normalize), normalize)
    IN  << Op("border", key, 1, s, R(0), Lens(s, angle, hwr),
              IF highlight = "regular" THEN R(1) ELSE Rat(8, 10), color, NoText) >>

_outer_border(key, emotion_score, color, angle, highlight, hwr, normalize) ==
    LET s == Normalized(emotion_score, normalize)
    IN  << Op("border", key, 1, s, R(0), Lens(s, angle, hwr),
              IF highlight = "regular" THEN R(1) ELSE Rat(8, 10), color, NoText) >>

\* a petal routine that returns early on a score of 0, as the dyads' one does
PetalShapeEmotionSkipsZero(key, emotion_score, color, angle, highlight, will_circle, hwr, normalize) ==
    IF RZero(emotion_score) THEN <<>>
    ELSE LET s == Normalized(emotion_score, normalize)
         IN  << Op("underlay", key, 0, s, R(0), Lens(s, angle, hwr), R(1), "white", NoText),
                Op("fill", key, 10, s, R(0), Lens(s, angle, hwr), Rat(5, 10), color, NoText) >>

_petal_shape_emotion(key, emotion_score, color, angle, highlight, will_circle, hwr, normalize) ==
    LET s     == Normalized(emotion_score, normalize)
        petal == Lens(s, angle, hwr)
        alpha == IF highlight = "regular"
                 THEN (IF will_circle THEN Rat(3, 10) ELSE Rat(5, 10))
                 ELSE R(0)
    IN  << Op("underlay", key, 0, s, R(0), petal, R(1), "white", NoText),
           Op("fill", key, 10, s, R(0), petal, alpha, color, NoText) >>

\* nothing at all for a score of 0; else the white petal and the two half-petals
\* a dyad petal whose halves have exchanged their colours
PetalShapeDyadHalvesSwapped(key, emotion_score, colorA, colorB, angle, hwr, normalize) ==
    IF RZero(emotion_score) THEN <<>>
    ELSE LET s     == Normalized(emotion_score, normalize)
             petal == Lens(s, angle, hwr)
         IN  << Op("underlay", key, 0, s, R(0), petal, R(1), "white", NoText),
                Spanning(Op("half_left", key, 1, s, R(0), petal, Rat(7, 10), colorB, NoText),
                         RMul(R(-2), petal.x), R(0)),
                Spanning(Op("half_right", key, 1, s, R(0), petal, Rat(7, 10), colorA, NoText),
                         R(0), RMul(R(2), petal.x)) >>

_petal_shape_dyad(key, emotion_score, colorA, colorB, angle, hwr, normalize) ==
    IF RZero(emotion_score) THEN <<>>
    ELSE LET s     == Normalized(emotion_score, normalize)
             petal == Lens(s, angle, hwr)
         IN  << Op("underlay", key, 0, s, R(0), petal, R(1), "white", NoText),
                Spanning(Op("half_left", key, 1, s, R(0), petal, Rat(7, 10), colorA, NoText),
                         RMul(R(-2), petal.x), R(0)),
                Spanning(Op("half_right", key, 1, s, R(0), petal, Rat(7, 10), colorB, NoText),
                         R(0), RMul(R(2), petal.x)) >>

\* variant: the second overlay goes to the section drawn with inner = False
PetalCircleOverlayWhenNotInner(key, petal, radius, color, inner, highlight, normalize) ==
    IF RZero(radius) THEN <<>>
    ELSE LET rad    == Normalized(radius, normalize)
             c      == RAdd(rad, offset)
             alpha0 == IF highlight = "regular" THEN R(1) ELSE Rat(2, 10)
             alpha1 == IF highlight = "regular" THEN Rat(5, 10) ELSE R(0)
             alpha2 == IF highlight = "regular" THEN Rat(3, 10) ELSE R(0)
         IN  << Op("band_fill", key, 1, rad, c, petal, alpha1, color, NoText),
                Op("band_edge", key, 1, rad, c, petal, alpha0, color, NoText) >> \o
             (IF ~inner
              THEN << Op("band_overlay", key, 1, rad, c, petal, alpha2, color, NoText),
                      Op("band_edge", key, 1, rad, c, petal, alpha0, color, NoText) >>
              ELSE <<>>)

\* one section of a petal: the petal intersected with the circle of radius
\* radius + offset around the origin; nothing for a radius of 0
_petal_circle(key, petal, radius, color, inner, highlight, normalize) ==
    IF RZero(radius) THEN <<>>
    ELSE LET rad    == Normalized(radius, normalize)
             c      == RAdd(rad, offset)
             alpha0 == IF highlight = "regular" THEN R(1) ELSE Rat(2, 10)
             alpha1 == IF highlight = "regular" THEN Rat(5, 10) ELSE R(0)
             alpha2 == IF highlight = "regular" THEN Rat(3, 10) ELSE R(0)
         IN  << Op("band_fill", key, 1, rad, c, petal, alpha1, color, NoText),
                Op("band_edge", key, 1, rad, c, petal, alpha0, color, NoText) >> \o
             (IF inner
              THEN << Op("band_overlay", key, 1, rad, c, petal, alpha2, color, NoText),
                      Op("band_edge", key, 1, rad, c, petal, alpha0, color, NoText) >>
              ELSE <<>>)

(***************************************************************************)
(* _petal_spine_emotion, _petal_spine_dyad                                 *)
(***************************************************************************)
SpineLines(key) ==
    << Op("spine_line", key, 5, R(0), RAdd(RAdd(R(1), step), offset), NoLens,
          Rat(3, 10), "black", NoText),
       Op("spine_tick", key, 5, R(0), RAdd(RAdd(R(1), step), offset), NoLens,
          Rat(3, 10), "black", NoText) >>

\* emotion_score is what the caller passes as label: the score, or a 3-tuple's sum
_petal_spine_emotion(emotion, emotion_score, color, angle, highlight) ==
    LET alpha == IF highlight = "opaque" THEN Rat(8, 10) ELSE R(1)
        col   == IF highlight = "opaque" THEN "lightgrey" ELSE color
    IN  SpineLines(emotion) \o
        << Op("name_label", emotion, 3, R(0), R(0), NoLens, R(1), "black", Str(emotion)) >> \o
        [k \in 1..Len(emotion_score.v) |->
            Op("score_label", emotion, 3, R(0), R(0), NoLens, alpha, col,
               Fmt2(emotion_score.v[k]))]

_petal_spine_dyad(dyad, dyad_score, color, emotion_names, angle, highlight) ==
    LET alpha == IF highlight = "opaque" THEN Rat(8, 10) ELSE R(1)
    IN  SpineLines(dyad) \o
        << Spanning(Op("arc_right", dyad, 1, R(0), Rat(16, 10), NoLens, R(1), color[2], NoText),
                    RSub(angle, R(18)), angle),
           Spanning(Op("arc_left",  dyad, 1, R(0), Rat(16, 10), NoLens, R(1), color[1], NoText),
                    angle, RAdd(angle, R(18))),
           Spanning(Op("emo_label_right", dyad, 30, R(0), Rat(17, 10), NoLens, R(1), color[2],
                       Str(emotion_names[2])),
                    RSub(angle, R(9)), RSub(angle, R(9))),
           Spanning(Op("emo_label_left", dyad, 30, R(0), Rat(17, 10), NoLens, R(1), color[1],
                       Str(emotion_names[1])),
                    RAdd(angle, R(9)), RAdd(angle, R(9))),
           Op("name_label", dyad, 3, R(0), R(0), NoLens, R(1), "black", Str(dyad)),
           Op("score_label", dyad, 3, R(0), R(0), NoLens, alpha, "#363636",
              Fmt2(dyad_score)) >>

(***************************************************************************)
(* _draw_emotion_petal, _draw_dyad_petal                                   *)
(***************************************************************************)
\* highlight_emotions and show_intensity_labels: 'all', or a list of names
\* ('none' is the list that holds no emotion)
All        == [all |-> TRUE,  names |-> {}]
Only(list) == [all |-> FALSE, names |-> list]

\* a petal that is drawn in the regular state whatever the highlight set
DrawEmotionPetalNeverShadowed(emotion, emotion_score, highlight_emotions, show_intensity_labels, show_coordinates, hwr, normalize) ==
    LET p         == emo_params(emotion)
        highlight == "regular"
    IN  IF ~emotion_score.iter
        THEN (IF show_coordinates
              THEN _petal_spine_emotion(emotion, emotion_score, p.color, p.angle, highlight)
              ELSE <<>>) \o
             _petal_shape_emotion(emotion, emotion_score.v[1], p.color, p.angle,
                                  highlight, FALSE, hwr, normalize) \o
             _outer_border(emotion, emotion_score.v[1], p.color, p.angle, highlight,
                           hwr, normalize)
        ELSE LET a      == emotion_score.v[1]
                 b      == emotion_score.v[2]
                 c      == emotion_score.v[3]
                 length == RAdd(RAdd(a, b), c)
                 label  == IF show_intensity_labels.all
                              \/ emotion \in show_intensity_labels.names
                           THEN emotion_score ELSE Scalar(length)
                 petal_shape == Lens(Normalized(length, normalize), p.angle, hwr)
             IN  (IF show_coordinates
                  THEN _petal_spine_emotion(emotion, label, p.color, p.angle, highlight)
                  ELSE <<>>) \o
                 _petal_shape_emotion(emotion, length, p.color, p.angle,
                                      highlight, TRUE, hwr, normalize) \o
                 _petal_circle(emotion, petal_shape, RAdd(a, b), p.color, FALSE,
                               highlight, normalize) \o
                 _petal_circle(emotion, petal_shape, a, p.color, TRUE,
                               highlight, normalize) \o
                 _outer_border(emotion, length, p.color, p.angle, highlight,
                               hwr, normalize)

\* a petal whose spine always carries one label per band
DrawEmotionPetalBandLabels(emotion, emotion_score, highlight_emotions, show_intensity_labels, show_coordinates, hwr, normalize) ==
    LET p         == emo_params(emotion)
        highlight == IF ~highlight_emotions.all
                     THEN (IF emotion \in highlight_emotions.names
                           THEN "regular" ELSE "opaque")
                     ELSE "regular"
    IN  IF ~emotion_score.iter
        THEN (IF show_coordinates
              THEN _petal_spine_emotion(emotion, emotion_score, p.color, p.angle, highlight)
              ELSE <<>>) \o
             _petal_shape_emotion(emotion, emotion_score.v[1], p.color, p.angle,
                                  highlight, FALSE, hwr, normalize) \o
             _outer_border(emotion, emotion_score.v[1], p.color, p.angle, highlight,
                           hwr, normalize)
        ELSE LET a      == emotion_score.v[1]
                 b      == emotion_score.v[2]
                 c      == emotion_score.v[3]
                 length == RAdd(RAdd(a, b), c)
                 label  == emotion_score
                 petal_shape == Lens(Normalized(length, normalize), p.angle, hwr)
             IN  (IF show_coordinates
                  THEN _petal_spine_emotion(emotion, label, p.color, p.angle, highlight)
                  ELSE <<>>) \o
                 _petal_shape_emotion(emotion, length, p.color, p.angle,
                                      highlight, TRUE, hwr, normalize) \o
                 _petal_circle(emotion, petal_shape, RAdd(a, b), p.color, FALSE,
                               highlight, normalize) \o
                 _petal_circle(emotion, petal_shape, a, p.color, TRUE,
                               highlight, normalize) \o
                 _outer_border(emotion, length, p.color, p.angle, highlight,
                               hwr, normalize)

\* a petal whose border is sized by the innermost band alone
DrawEmotionPetalBorderOfFirstBand(emotion, emotion_score, highlight_emotions, show_intensity_labels, show_coordinates, hwr, normalize) ==
    LET p         == emo_params(emotion)
        highlight == IF ~highlight_emotions.all
                     THEN (IF emotion \in highlight_emotions.names
                           THEN "regular" ELSE "opaque")
                     ELSE "regular"
    IN  IF ~emotion_score.iter
        THEN (IF show_coordinates
              THEN _petal_spine_emotion(emotion, emotion_score, p.color, p.angle, highlight)
              ELSE <<>>) \o
             _petal_shape_emotion(emotion, emotion_score.v[1], p.color, p.angle,
                                  highlight, FALSE, hwr, normalize) \o
             _outer_border(emotion, emotion_score.v[1], p.color, p.angle, highlight,
                           hwr, normalize)
        ELSE LET a      == emotion_score.v[1]
                 b      == emotion_score.v[2]
                 c      == emotion_score.v[3]
                 length == RAdd(RAdd(a, b), c)
                 label  == IF show_intensity_labels.all
                              \/ emotion \in show_intensity_labels.names
                           THEN emotion_score ELSE Scalar(length)
                 petal_shape == Lens(Normalized(length, normalize), p.angle, hwr)
             IN  (IF show_coordinates
                  THEN _petal_spine_emotion(emotion, label, p.color, p.angle, highlight)
                  ELSE <<>>) \o
                 _petal_shape_emotion(emotion, length, p.color, p.angle,
                                      highlight, TRUE, hwr, normalize) \o
                 _petal_circle(emotion, petal_shape, RAdd(a, b), p.color, FALSE,
                               highlight, normalize) \o
                 _petal_circle(emotion, petal_shape, a, p.color, TRUE,
                               highlight, normalize) \o
                 _outer_border(emotion, a, p.color, p.angle, highlight,
                               hwr, normalize)

_draw_emotion_petal(emotion, emotion_score, highlight_emotions, show_intensity_labels, show_coordinates, hwr, normalize) ==
    LET p         == emo_params(emotion)
        highlight == IF ~highlight_emotions.all
                     THEN (IF emotion \in highlight_emotions.names
                           THEN "regular" ELSE "opaque")
                     ELSE "regular"
    IN  IF ~emotion_score.iter
        THEN (IF show_coordinates
              THEN _petal_spine_emotion(emotion, emotion_score, p.color, p.angle, highlight)
              ELSE <<>>) \o
             _petal_shape_emotion(emotion, emotion_score.v[1], p.color, p.angle,
                                  highlight, FALSE, hwr, normalize) \o
             _outer_border(emotion, emotion_score.v[1], p.color, p.angle, highlight,
                           hwr, normalize)
        ELSE LET a      == emotion_score.v[1]
                 b      == emotion_score.v[2]
                 c      == emotion_score.v[3]
                 length == RAdd(RAdd(a, b), c)
                 label  == IF show_intensity_labels.all
                              \/ emotion \in show_intensity_labels.names
                           THEN emotion_score ELSE Scalar(length)
                 petal_shape == Lens(Normalized(length, normalize), p.angle, hwr)
             IN  (IF show_coordinates
                  THEN _petal_spine_emotion(emotion, label, p.color, p.angle, highlight)
                  ELSE <<>>) \o
                 _petal_shape_emotion(emotion, length, p.color, p.angle,
                                      highlight, TRUE, hwr, normalize) \o
                 _petal_circle(emotion, petal_shape, RAdd(a, b), p.color, FALSE,
                               highlight, normalize) \o
                 _petal_circle(emotion, petal_shape, a, p.color, TRUE,
                               highlight, normalize) \o
                 _outer_border(emotion, length, p.color, p.angle, highlight,
                               hwr, normalize)

\* a dyad petal whose spine, arcs and labels come after its shapes
DrawDyadPetalSpineLast(dyad, dyad_score, show_coordinates, hwr, normalize) ==
    LET p == dyad_params(dyad)
    IN  _petal_shape_dyad(dyad, dyad_score, p.cmap[1], p.cmap[2], p.angle, hwr, normalize) \o
        _outer_border(dyad, dyad_score, p.cmap[1], p.angle, "all", hwr, normalize) \o
        (IF show_coordinates
         THEN _petal_spine_dyad(dyad, dyad_score, p.cmap, p.emos, p.angle, "all")
         ELSE <<>>)

_draw_dyad_petal(dyad, dyad_score, show_coordinates, hwr, normalize) ==
    LET p == dyad_params(dyad)
    IN  (IF show_coordinates
         THEN _petal_spine_dyad(dyad, dyad_score, p.cmap, p.emos, p.angle, "all")
         ELSE <<>>) \o
        _petal_shape_dyad(dyad, dyad_score, p.cmap[1], p.cmap[2], p.angle, hwr, normalize) \o
        _outer_border(dyad, dyad_score, p.cmap[1], p.angle, "all", hwr, normalize)

(***************************************************************************)
(* plutchik: score checks and the dictionary of lower-cased keys           *)
(***************************************************************************)
\* str.lower() on the names of the model
Lower(key) ==
    CASE key = "Joy"   -> "joy"
      [] key = "TRUST" -> "trust"
      [] key = "Love"  -> "love"
      [] OTHER         -> key

Entry(key, score) == [key |-> key, score |-> score]
Keys(d) == [i \in DOMAIN d |-> d[i].key]

\* {key.lower(): val for key, val in emotions.items()}: a key met again keeps
\* its place and takes the later value
LowerKeys(d) ==
    LET lowered == [i \in DOMAIN d |-> Lower(d[i].key)]
        first   == {i \in DOMAIN d : \A j \in 1..(i - 1) : lowered[j] # lowered[i]}
        last(i) == CHOOSE j \in DOMAIN d :
                     /\ lowered[j] = lowered[i]
                     /\ \A m \in DOMAIN d : lowered[m] = lowered[i] => m <= j
    IN  [n \in 1..Cardinality(first) |->
           LET i == CHOOSE i \in first : Cardinality({j \in first : j < i}) = n - 1
           IN  Entry(lowered[i], d[last(i)].score)]

\* sum() of a list of numbers
SumF[v \in Seq(Q)] == IF Len(v) = 0 THEN R(0) ELSE RAdd(Head(v), SumF[Tail(v)])

Sum(v) == SumF[v]

\* a check that lets a score of more than 1 through
BadEmotionScoreNoUpper(score) ==
    IF score.iter
    THEN \E i \in DOMAIN score.v : RLt(score.v[i], R(0))
    ELSE RLt(score.v[1], R(0))

\* the test that raises "Bad input for `emo`"
BadEmotionScore(score) ==
    IF score.iter
    THEN RLt(R(1), Sum(score.v)) \/ \E i \in DOMAIN score.v : RLt(score.v[i], R(0))
    ELSE RLt(R(1), score.v[1]) \/ RLt(score.v[1], R(0))

\* the test that raises "Bad input for `dyad`" (dyad scores are scalars)
BadDyadScore(score) ==
    RLt(R(1), score.v[1]) \/ RLt(score.v[1], R(0))

(***************************************************************************)
(* Inputs                                                                  *)
(***************************************************************************)
MaxEntries == 2

S(n, d) == Scalar(Rat(n, d))
T(a, b, c) == Triple(Rat(a, 100), Rat(b, 100), Rat(c, 100))

\* src/test.py
emo1 ==
    << Entry("joy", T(30, 20, 50)),      Entry("trust", T(50, 10, 0)),
       Entry("fear", T(10, 40, 20)),     Entry("surprise", T(15, 50, 35)),
       Entry("sadness", T(0, 50, 50)),   Entry("disgust", T(40, 33, 22)),
       Entry("anger", T(43, 12, 9)),     Entry("anticipation", T(30, 50, 20)) >>

emo2 ==
    << Entry("joy", S(1, 1)),            Entry("trust", T(100, 0, 0)),
       Entry("fear", S(1, 1)),           Entry("surprise", T(0, 100, 0)),
       Entry("sadness", S(1, 1)),        Entry("disgust", S(1, 1)),
       Entry("anger", S(1, 1)),          Entry("anticipation", T(100, 0, 0)) >>

emo3 ==
    << Entry("joy", S(0, 1)),            Entry("trust", T(0, 0, 0)),
       Entry("fear", S(0, 1)),           Entry("surprise", T(0, 0, 0)),
       Entry("sadness", S(0, 1)),        Entry("disgust", S(0, 1)),
       Entry("anger", S(0, 1)),          Entry("anticipation", S(0, 1)) >>

EmotionScores ==
    { S(0, 1), S(2, 5), S(4, 5), S(6, 5), S(-1, 5),
      T(30, 20, 50), T(50, 40, 20), T(-10, 50, 50) }

DyadScores == { S(0, 1), S(4, 5), S(6, 5), S(-1, 5) }

EntryPool ==
    { Entry(k, v) : k \in {"joy", "trust"}, v \in EmotionScores } \cup
    { Entry(k, v) : k \in {"love", "optimism", "guilt"}, v \in DyadScores } \cup
    { Entry(k, v) : k \in {"Joy", "aggression"}, v \in {S(4, 5)} }

DictsOfLen[n \in Nat] ==
    IF n = 0 THEN {<<>>}
    ELSE { Append(d, e) : d \in DictsOfLen[n - 1], e \in EntryPool }

DistinctKeys(d) == \A i, j \in DOMAIN d : i # j => d[i].key # d[j].key

\* the dictionaries a caller may pass: keys are distinct, order is insertion order
ScoreSets ==
    { d \in UNION { DictsOfLen[n] : n \in 0..MaxEntries } : DistinctKeys(d) }
    \cup {emo1, emo2, emo3}

\* one petal out of eight, a whole family of opposites, one tertiary dyad
JoyOnly ==
    << Entry("joy", S(1, 2)),            Entry("trust", S(0, 1)),
       Entry("fear", S(0, 1)),           Entry("surprise", S(0, 1)),
       Entry("sadness", S(0, 1)),        Entry("disgust", S(0, 1)),
       Entry("anger", S(0, 1)),          Entry("anticipation", S(0, 1)) >>

OppositeFamily ==
    << Entry("bittersweetness", S(1, 2)), Entry("ambivalence", S(1, 2)),
       Entry("frozenness", S(1, 2)),      Entry("confusion", S(1, 2)) >>

Samples == {emo1, emo2, emo3, JoyOnly, OppositeFamily, <<Entry("delight", S(4, 5))>>}

fontsize == 15

Options ==
    [ show_coordinates : BOOLEAN,
      show_ticklabels : {FALSE},
      highlight_emotions : {All},
      show_intensity_labels : {Only({})},
      height_width_ratio : {R(1)},
      normalize : {R(0), Rat(4, 5)},
      title : {""},
      title_size : {0} ]

\* src/test.py: selected_emotions = ['anticipation', 'joy', 'sadness']
selected_emotions == {"anticipation", "joy", "sadness"}

\* the sample dictionaries are drawn with every highlight and label option, or
\* with a title, or as slender petals
SampleOptions ==
    { o \in [ show_coordinates : BOOLEAN,
              show_ticklabels : {FALSE},
              highlight_emotions : {All, Only(selected_emotions), Only({})},
              show_intensity_labels : {Only({}), All, Only(selected_emotions)},
              height_width_ratio : {R(1), Rat(1, 2)},
              normalize : {R(0)},
              title : {"", "Emotions"},
              title_size : {0, 20} ] :
        \/ o.title = "" /\ o.title_size = 0 /\ o.height_width_ratio = R(1)
        \/ o.highlight_emotions = All /\ o.show_intensity_labels = Only({})
             /\ (o.height_width_ratio = R(1) \/ o.title = "") }

\* the calls of plutchik: any small dictionary under the plain options, the
\* sample dictionaries under every option
Calls == (ScoreSets \X Options) \cup (Samples \X SampleOptions)

(***************************************************************************)
(* State                                                                   *)
(***************************************************************************)
VARIABLES
    pc,         \* where the call of plutchik stands
    scores,     \* the caller's dictionary, a sequence of entries
    opts,       \* the keyword arguments
    emotions,   \* plutchik's local: the emotion entries, <<>> for None
    dyads,      \* plutchik's local: the dyad entries, <<>> for None
    it,         \* position of the for loop
    surface,    \* the artists appended to ax so far
    raised,     \* the exception that ended the call
    view,       \* axis limits, axis switch and title of ax
    rq,         \* registry run: the name looked up
    rres        \* registry run: the result of the look up

vars == <<pc, scores, opts, emotions, dyads, it, surface, raised, view, rq, rres>>

NoResult == [ok |-> FALSE, fn |-> "none", name |-> "", color |-> NoColor,
             cmap |-> NoPair, emos |-> NoPair, angle |-> R(0), kind |-> -1]

FreshView == [lim |-> R(0), axis_off |-> FALSE, title |-> "", title_size |-> 0]

\* a caller calls plutchik(scores, **opts)
CallPlutchik ==
    /\ pc = "check"
    /\ \E c \in Calls : scores = c[1] /\ opts = c[2]
    /\ emotions = <<>>
    /\ dyads = <<>>
    /\ it = 1
    /\ surface = <<>>
    /\ raised = NoError
    /\ view = FreshView
    /\ rq = ""
    /\ rres = NoResult

(***************************************************************************)
(* plutchik, statement by statement                                        *)
(***************************************************************************)
Raise(e) ==
    /\ pc' = "raised"
    /\ raised' = e

\* score_is_emotions = _check_scores_kind(scores)
CheckScoresKind ==
    /\ pc = "check"
    /\ LET r == _check_scores_kind(Keys(scores))
       IN  IF r.err.type # "none"
           THEN /\ Raise(r.err)
                /\ UNCHANGED <<emotions, dyads>>
           ELSE /\ pc' = "coordinates"
                /\ emotions' = IF r.is_emotions THEN scores ELSE <<>>
                /\ dyads' = IF r.is_emotions THEN <<>> ELSE scores
                /\ UNCHANGED raised
    /\ UNCHANGED <<scores, opts, it, surface, view, rq, rres>>

\* if show_coordinates: _polar_coordinates(...)
PolarCoordinates ==
    /\ pc = "coordinates"
    /\ surface' = IF opts.show_coordinates
                  THEN surface \o _polar_coordinates(opts.show_ticklabels)
                  ELSE surface
    /\ pc' = "circle"
    /\ UNCHANGED <<scores, opts, emotions, dyads, it, raised, view, rq, rres>>

\* _neutral_central_circle(ax), then the branch on `if emotions: ... elif dyads:`
NeutralCentralCircle ==
    /\ pc = "circle"
    /\ surface' = surface \o _neutral_central_circle
    /\ emotions' = IF Len(emotions) > 0 THEN LowerKeys(emotions) ELSE emotions
    /\ pc' = IF Len(emotions) > 0 THEN "emotions"
             ELSE IF Len(dyads) > 0 THEN "dyads" ELSE "limits"
    /\ UNCHANGED <<scores, opts, dyads, it, raised, view, rq, rres>>

\* a turn that draws the petal and checks the score afterwards
EmotionIterationDrawsBeforeCheck ==
    /\ pc = "emotions"
    /\ it <= Len(emotions)
    /\ LET emo == emotions[it].key
           val == emotions[it].score
       IN  IF BadEmotionScore(val)
           THEN /\ Raise(Error("InvalidScore", emo, <<>>))
                /\ surface' = surface \o
                       _draw_emotion_petal(emo, val, opts.highlight_emotions,
                                           opts.show_intensity_labels, opts.show_coordinates,
                                           opts.height_width_ratio, opts.normalize)
                /\ UNCHANGED it
           ELSE /\ surface' = surface \o
                       _draw_emotion_petal(emo, val, opts.highlight_emotions,
                                           opts.show_intensity_labels, opts.show_coordinates,
                                           opts.height_width_ratio, opts.normalize)
                /\ it' = it + 1
                /\ pc' = IF it = Len(emotions) THEN "limits" ELSE "emotions"
                /\ UNCHANGED raised
    /\ UNCHANGED <<scores, opts, emotions, dyads, view, rq, rres>>

\* one turn of `for emo in emotions`
EmotionIteration ==
    /\ pc = "emotions"
    /\ it <= Len(emotions)
    /\ LET emo == emotions[it].key
           val == emotions[it].score
       IN  IF BadEmotionScore(val)
           THEN /\ Raise(Error("InvalidScore", emo, <<>>))
                /\ UNCHANGED <<surface, it>>
           ELSE /\ surface' = surface \o
                       _draw_emotion_petal(emo, val, opts.highlight_emotions,
                                           opts.show_intensity_labels, opts.show_coordinates,
                                           opts.height_width_ratio, opts.normalize)
                /\ it' = it + 1
                /\ pc' = IF it = Len(emotions) THEN "limits" ELSE "emotions"
                /\ UNCHANGED raised
    /\ UNCHANGED <<scores, opts, emotions, dyads, view, rq, rres>>

\* one turn of `for dyad in dyads`
DyadIteration ==
    /\ pc = "dyads"
    /\ it <= Len(dyads)
    /\ LET dyad == dyads[it].key
           val  == dyads[it].score
       IN  IF BadDyadScore(val)
           THEN /\ Raise(Error("InvalidScore", dyad, <<>>))
                /\ UNCHANGED <<surface, it>>
           ELSE /\ surface' = surface \o
                       _draw_dyad_petal(dyad, val.v[1], opts.show_coordinates,
                                        opts.height_width_ratio, opts.normalize)
                /\ it' = it + 1
                /\ pc' = IF it = Len(dyads) THEN "annotation" ELSE "dyads"
                /\ UNCHANGED raised
    /\ UNCHANGED <<scores, opts, emotions, dyads, view, rq, rres>>

\* an annotation that writes the level number for every family
DyadAnnotationNumeralOnly ==
    /\ pc = "annotation"
    /\ LET level == dyad_params(dyads[1].key).kind
           ll    == ToString(level)
       IN  surface' = surface \o
             << Op("level_annotation", "", 30, R(0), R(0), NoLens, R(1), "black", Str(ll)),
                Op("track", "", -20, R(0), Rat(160, 100), NoLens, Rat(3, 10), "grey", NoText) >>
    /\ pc' = "limits"
    /\ UNCHANGED <<scores, opts, emotions, dyads, it, raised, view, rq, rres>>

\* the annotation inside the circle and the dotted track
DyadAnnotation ==
    /\ pc = "annotation"
    /\ LET level == dyad_params(dyads[1].key).kind
           ll    == IF level # 4 THEN ToString(level) ELSE "opp."
       IN  surface' = surface \o
             << Op("level_annotation", "", 30, R(0), R(0), NoLens, R(1), "black", Str(ll)),
                Op("track", "", -20, R(0), Rat(160, 100), NoLens, Rat(3, 10), "grey", NoText) >>
    /\ pc' = "limits"
    /\ UNCHANGED <<scores, opts, emotions, dyads, it, raised, view, rq, rres>>

\* a printable area without the margin of the dyads
LimitsNoDyadMargin ==
    /\ pc = "limits"
    /\ LET lim0 == IF opts.show_coordinates THEN Rat(16, 10) ELSE Rat(12, 10)
           lim  == lim0
           title_size == IF opts.title_size = 0 THEN fontsize ELSE opts.title_size
       IN  view' = [lim |-> lim, axis_off |-> TRUE,
                    title |-> opts.title,
                    title_size |-> IF opts.title # "" THEN title_size ELSE 0]
    /\ pc' = "done"
    /\ UNCHANGED <<scores, opts, emotions, dyads, it, surface, raised, rq, rres>>

\* printable area, ax.axis('off'), title
Limits ==
    /\ pc = "limits"
    /\ LET lim0 == IF opts.show_coordinates THEN Rat(16, 10) ELSE Rat(12, 10)
           lim  == IF Len(dyads) > 0 THEN RAdd(lim0, Rat(1, 10)) ELSE lim0
           title_size == IF opts.title_size = 0 THEN fontsize ELSE opts.title_size
       IN  view' = [lim |-> lim, axis_off |-> TRUE,
                    title |-> opts.title,
                    title_size |-> IF opts.title # "" THEN title_size ELSE 0]
    /\ pc' = "done"
    /\ UNCHANGED <<scores, opts, emotions, dyads, it, surface, raised, rq, rres>>

(***************************************************************************)
(* The registries called on their own: one name, one look up               *)
(***************************************************************************)
CallRegistry ==
    /\ pc = "registry"
    /\ rq \in Names
    /\ rres = NoResult
    /\ scores = <<>>
    /\ opts \in {o \in Options : ~o.show_coordinates /\ RZero(o.normalize)}
    /\ emotions = <<>>
    /\ dyads = <<>>
    /\ it = 1
    /\ surface = <<>>
    /\ raised = NoError
    /\ view = FreshView

Lookup(result) ==
    /\ pc = "registry"
    /\ rres' = result
    /\ pc' = "looked_up"
    /\ UNCHANGED <<scores, opts, emotions, dyads, it, surface, raised, view, rq>>

EmoParams == Lookup(emo_params(rq))

DyadParams == Lookup(dyad_params(rq))

(***************************************************************************)
(* _rotate_point called on its own: one point, one angle                   *)
(***************************************************************************)
Points ==
    { <<Coord(R(0)), Coord(R(1))>>, <<Coord(R(1)), Coord(R(0))>>,
      <<Coord(Rat(1, 2)), Coord(Rat(13, 40))>>, <<Coord(Rat(-3, 100)), Coord(Rat(118, 100))>> }

Angles == { RMul(R(k), Rat(45, 2)) : k \in -16..16 }

CallRotate ==
    /\ pc = "rotate"
    /\ rq \in [point : Points, angle : Angles]
    /\ rres = NoResult
    /\ scores = <<>>
    /\ opts \in {o \in Options : ~o.show_coordinates /\ RZero(o.normalize)}
    /\ emotions = <<>>
    /\ dyads = <<>>
    /\ it = 1
    /\ surface = <<>>
    /\ raised = NoError
    /\ view = FreshView

RotatePoint ==
    /\ pc = "rotate"
    /\ rres' = [ok |-> TRUE, fn |-> "_rotate_point", q |-> _rotate_point(rq.point, rq.angle)]
    /\ pc' = "rotated"
    /\ UNCHANGED <<scores, opts, emotions, dyads, it, surface, raised, view, rq>>

(***************************************************************************)
(* src/amazon.py: get_amazon_emotions, then the plots of the ratings 1..5  *)
(***************************************************************************)
MaxReviews == 2

AmazonKeys ==
    <<"anger", "anticipation", "disgust", "fear", "joy", "sadness", "surprise", "trust">>

\* a review: its star rating and its text, a text being taken for the set of
\* the emotions that NRCLex(text).raw_emotion_scores counts in it
Reviews == [overall : 1..5, reviewText : {{}, {"joy", "trust"}}]

ReviewsOfLen[n \in Nat] ==
    IF n = 0 THEN {<<>>}
    ELSE { Append(d, a) : d \in ReviewsOfLen[n - 1], a \in Reviews }

Datasets == UNION { ReviewsOfLen[n] : n \in 0..MaxReviews }

\* {key: int(emo[key] > 0) if key in emo else 0 for key in keys}
get_emotions_text(text, keys) ==
    [key \in Range(keys) |-> IF key \in text THEN 1 ELSE 0]

\* np.mean of a list of 0s and 1s; the mean of no value is nan, written 0/0
NaN == <<0, 0>>
Mean(values) ==
    IF Len(values) = 0 THEN NaN
    ELSE Rat(Cardinality({j \in DOMAIN values : values[j] = 1}), Len(values))

AmazonResult(emo_scores, plotted) ==
    [ok |-> TRUE, fn |-> "get_amazon_emotions", emo_scores |-> emo_scores, plotted |-> plotted]

\* amz_emo = get_amazon_emotions(amz)
CallAmazon ==
    /\ pc = "amazon"
    /\ rq \in Datasets
    /\ rres = AmazonResult(<<>>, <<>>)
    /\ scores = <<>>
    /\ opts \in {o \in Options : ~o.show_coordinates /\ RZero(o.normalize)}
    /\ emotions = <<>>
    /\ dyads = <<>>
    /\ it = 1
    /\ surface = <<>>
    /\ raised = NoError
    /\ view = FreshView

\* one turn of `for i in range(1, 5, 1)`, and the return after the last one
AmazonIteration ==
    /\ pc = "amazon"
    /\ LET tmp    == SelectSeq(rq, LAMBDA a : a.overall = it)
           flags  == [j \in DOMAIN tmp |-> get_emotions_text(tmp[j].reviewText, AmazonKeys)]
           avg    == [k \in DOMAIN AmazonKeys |->
                        Entry(AmazonKeys[k],
                              Scalar(Mean([j \in DOMAIN flags |-> flags[j][AmazonKeys[k]]])))]
       IN  rres' = AmazonResult(Append(rres.emo_scores, Entry(ToString(it), avg)), <<>>)
    /\ it' = IF it + 1 < 5 THEN it + 1 ELSE 0
    /\ pc' = IF it + 1 < 5 THEN "amazon" ELSE "amazon_plot"
    /\ UNCHANGED <<scores, opts, emotions, dyads, surface, raised, view, rq>>

\* one turn of `for i in range(5): plutchik(amz_emo[str(i + 1)], ...)`: the
\* look up of the rating, which raises KeyError for a missing key, and the
\* ScoreSet handed to plutchik with its title of i + 1 stars
PlotRating ==
    /\ pc = "amazon_plot"
    /\ LET key == ToString(it + 1)
           hit == {j \in DOMAIN rres.emo_scores : rres.emo_scores[j].key = key}
       IN  IF hit = {}
           THEN /\ raised' = Error("KeyError", key, <<>>)
                /\ pc' = "amazon_raised"
                /\ UNCHANGED <<it, rres>>
           ELSE /\ rres' = AmazonResult(rres.emo_scores,
                                        Append(rres.plotted,
                                               [scores |-> rres.emo_scores[CHOOSE j \in hit : TRUE].score,
                                                stars |-> it + 1, title_size |-> 35]))
                /\ it' = it + 1
                /\ pc' = IF it + 1 < 5 THEN "amazon_plot" ELSE "amazon_done"
                /\ UNCHANGED raised
    /\ UNCHANGED <<scores, opts, emotions, dyads, surface, view, rq>>

Init == CallPlutchik \/ CallRegistry \/ CallRotate \/ CallAmazon

Next ==
    \/ CheckScoresKind
    \/ PolarCoordinates
    \/ NeutralCentralCircle
    \/ EmotionIteration
    \/ DyadIteration
    \/ DyadAnnotation
    \/ Limits
    \/ EmoParams
    \/ DyadParams
    \/ RotatePoint
    \/ AmazonIteration
    \/ PlotRating

Spec == Init /\ [][Next]_vars

(***************************************************************************)
(* Vocabulary of the properties                                            *)
(***************************************************************************)
CanonicalOrder ==
    <<"joy", "trust", "fear", "surprise", "sadness", "disgust", "anger", "anticipation">>

\* position in a list, counted from 0
IndexIn(list, x) == (CHOOSE i \in DOMAIN list : list[i] = x) - 1

\* 0 for an emotion, the family level for a dyad, -1 for a name of neither registry
RegistryKind(name) ==
    IF name \in Range(CanonicalOrder) THEN 0
    ELSE IF \E l \in DOMAIN DyadFamilies : name \in Range(DyadFamilies[l])
         THEN CHOOSE l \in DOMAIN DyadFamilies : name \in Range(DyadFamilies[l])
         ELSE -1

KindWord(k) ==
    CASE k = 0 -> "emotions"
      [] k = 1 -> "primary"
      [] k = 2 -> "secondary"
      [] k = 3 -> "tertiary"
      [] k = 4 -> "opposite"

AmazonRun   == pc \in {"amazon", "amazon_plot", "amazon_done", "amazon_raised"}
PlutchikRun == pc \notin {"registry", "looked_up", "rotate", "rotated"} /\ ~AmazonRun
Terminal    == pc \in {"done", "raised"}

KindsOf(d) == {RegistryKind(d[i].key) : i \in DOMAIN d}
OneKind(d) == -1 \notin KindsOf(d) /\ Cardinality(KindsOf(d)) = 1

\* the entries the loop has been through
Active    == IF Len(emotions) > 0 THEN emotions ELSE dyads
Processed == IF pc \in {"emotions", "dyads", "annotation", "limits", "done", "raised"}
             THEN SubSeq(Active, 1, it - 1) ELSE <<>>

OpsOf(key) == SelectSeq(surface, LAMBDA op : op.key = key)

(***************************************************************************)
(* C1: a ScoreSet of registry names that spans two or more kinds makes     *)
(* plutchik fail with an error whose message names every kind present,     *)
(* and nothing has been appended to the surface when it fails.             *)
(***************************************************************************)
C1_MixedKindsRejectedBeforeDrawing ==
    (PlutchikRun /\ pc # "check" /\ -1 \notin KindsOf(scores)
       /\ Cardinality(KindsOf(scores)) >= 2)
    => /\ pc = "raised"
       /\ raised.type = "MixedKinds"
       /\ \A k \in KindsOf(scores) : KindWord(k) \in Range(raised.msg)
       /\ surface = <<>>

C1_Witness ==
    /\ pc = "raised"
    /\ raised.type = "MixedKinds"
    /\ Keys(scores) = <<"guilt", "joy">>
    /\ raised.msg = <<"emotions", " ", "and", " ", "secondary", " ", "dyads">>

(***************************************************************************)
(* C2: invalid scores.                                                     *)
(***************************************************************************)
OutOfRange(score) ==
    IF score.iter
    THEN \/ \E i \in DOMAIN score.v : score.v[i][1] < 0
         \/ Sum(score.v)[1] > Sum(score.v)[2]
    ELSE score.v[1][1] < 0 \/ score.v[1][1] > score.v[1][2]

FirstOutOfRange(d, i) ==
    /\ OutOfRange(d[i].score)
    /\ \A j \in 1..(i - 1) : ~OutOfRange(d[j].score)

\* an out-of-range score is never drawn: no artist belongs to its entry
C2_NeverDrawn ==
    \A i \in DOMAIN scores :
        OutOfRange(scores[i].score) => OpsOf(scores[i].key) = <<>>

\* a ScoreSet of one kind with every score in range renders to completion
C2_InRangeCompletes ==
    (OneKind(scores) /\ \A i \in DOMAIN scores : ~OutOfRange(scores[i].score))
    => /\ raised = NoError
       /\ pc = "done" \/ ENABLED Next
       /\ pc = "done" =>
            \A i \in DOMAIN scores :
                \E j \in DOMAIN surface :
                    surface[j].key = scores[i].key /\ surface[j].op = "border"

\* C2 as stated: plutchik fails with an invalid-score error naming key k if and
\* only if the score of k is out of range (a scalar outside [0,1], a 3-tuple with
\* a negative entry or a sum above 1); such a score is never drawn; a ScoreSet of
\* one kind with all scores in range renders to completion.
C2_Original ==
    PlutchikRun =>
        /\ (Terminal /\ OneKind(scores)) =>
              \A i \in DOMAIN scores :
                  (raised.type = "InvalidScore" /\ raised.key = scores[i].key)
                  <=> OutOfRange(scores[i].score)
        /\ C2_NeverDrawn
        /\ C2_InRangeCompletes

\* C2 as amended: the error names key k if and only if k is the first entry, in
\* iteration order, whose score is out of range; the rest as stated.
C2_FirstInvalidScoreNamed ==
    PlutchikRun =>
        /\ (Terminal /\ OneKind(scores)) =>
              \A i \in DOMAIN scores :
                  (raised.type = "InvalidScore" /\ raised.key = scores[i].key)
                  <=> FirstOutOfRange(scores, i)
        /\ C2_NeverDrawn
        /\ C2_InRangeCompletes

C2_Witness ==
    /\ pc = "raised"
    /\ raised.type = "InvalidScore"
    /\ Len(scores) = 2
    /\ raised.key = scores[2].key
    /\ scores[2].score = T(50, 40, 20)
    /\ ~OutOfRange(scores[1].score)
    /\ OpsOf(scores[1].key) # <<>>

CanonicalIndex(key) ==
    IF RegistryKind(key) = 0 THEN IndexIn(CanonicalOrder, key)
    ELSE IndexIn(DyadFamilies[RegistryKind(key)], key)

C4_DrawnInCanonicalOrder ==
    (PlutchikRun /\ OneKind(scores)) =>
        \A i, j \in DOMAIN surface :
            (i < j /\ surface[i].key # "" /\ surface[j].key # "")
            => CanonicalIndex(surface[i].key) <= CanonicalIndex(surface[j].key)

(***************************************************************************)
(* C5: emo_params(e) returns the angle -45 * index(e), index being the     *)
(* position of e in joy, trust, fear, surprise, sadness, disgust, anger,   *)
(* anticipation counted from 0, and the kind 0.                            *)
(***************************************************************************)
C5_EmotionAngles ==
    (rres.fn = "emo_params" /\ rq \in Range(CanonicalOrder))
    => /\ rres.ok
       /\ rres.angle = R(-45 * IndexIn(CanonicalOrder, rq))
       /\ rres.kind = 0

C5_Witness ==
    /\ rres.fn = "emo_params"
    /\ rq = "anticipation"
    /\ rres.angle = R(-315)

(***************************************************************************)
(* C6: for every dyad with emotion pair (A, B) and family level L,         *)
(* index(B) = (index(A) + L) mod 8; for L in 1..3 the angle of the dyad is *)
(* angle(A) - 22.5 * L modulo 360, for L = 4 it is angle(A).               *)
(***************************************************************************)
C6_DyadAngles ==
    (rres.fn = "dyad_params" /\ rres.ok)
    => LET A  == rres.emos[1]
           B  == rres.emos[2]
           L  == rres.kind
           iA == IndexIn(CanonicalOrder, A)
           iB == IndexIn(CanonicalOrder, B)
       IN  /\ A \in Range(CanonicalOrder)
           /\ B \in Range(CanonicalOrder)
           /\ L \in 1..4
           /\ iB = (iA + L) % 8
           /\ L \in 1..3 =>
                SameDirection(rres.angle,
                              RSub(emo_params(A).angle, RMul(Rat(45, 2), R(L))))
           /\ L = 4 => rres.angle = emo_params(A).angle

C6_Witness ==
    /\ rres.fn = "dyad_params"
    /\ rq = "anxiety"
    /\ rres.ok
    /\ rres.kind = 3
    /\ rres.emos = <<"anticipation", "fear">>
    /\ rres.angle = Rat(-45, 2)
    /\ emo_params("anticipation").angle = R(-315)

(***************************************************************************)
(* C7: the members and the spacing of the families.                        *)
(***************************************************************************)
\* the names dyad_params accepts with a given level
Accepted(L) == {n \in Names : dyad_params(n).ok /\ dyad_params(n).kind = L}

\* the family of the name looked up has `size' members, and the member listed
\* next after it lies `spacing' degrees further clockwise
FamilyShape(size, spacing) ==
    LET fam == DyadFamilies[rres.kind]
        i   == IndexIn(fam, rq) + 1
    IN  /\ Cardinality(Accepted(rres.kind)) = size
        /\ Accepted(rres.kind) = Range(fam)
        /\ i < Len(fam) =>
             SameDirection(dyad_params(fam[i + 1]).angle, RSub(rres.angle, R(spacing)))

\* C7 as stated: the opposite (level 4) family has exactly 4 members whose
\* successive angles are 90 degrees apart, each of the other three families has
\* 8 members 45 degrees apart.
C7_Original ==
    (rres.fn = "dyad_params" /\ rres.ok)
    => IF rres.kind = 4 THEN FamilyShape(4, 90) ELSE FamilyShape(8, 45)

\* C7 as amended: the opposite (level 4) family has exactly 4 members, each of
\* the other three families has 8, and in all four families the angles of
\* successive members are 45 degrees apart.
C7_FamiliesSpaced45 ==
    (rres.fn = "dyad_params" /\ rres.ok)
    => IF rres.kind = 4 THEN FamilyShape(4, 45) ELSE FamilyShape(8, 45)

C7_Witness ==
    /\ rres.fn = "dyad_params"
    /\ rq = "ambivalence"
    /\ rres.kind = 4
    /\ rres.angle = R(-45)
    /\ dyad_params("frozenness").angle = R(-90)

(***************************************************************************)
(* C8: dyad_params accepts exactly 28 pairwise distinct names, 8 of level  *)
(* 1, 8 of level 2, 8 of level 3 and 4 of level 4, none of them an emotion *)
(* name, so that _check_scores_kind gives every registry name exactly one  *)
(* of the five kinds.                                                      *)
(***************************************************************************)
C8_DyadNamesUnique ==
    (rres.fn = "dyad_params")
    => LET accepted == {n \in Names : dyad_params(n).ok}
           emotive  == {n \in Names : emo_params(n).ok}
       IN  /\ rres.ok <=> rq \in accepted
           /\ Cardinality(accepted) = 28
           /\ Cardinality(Accepted(1)) = 8
           /\ Cardinality(Accepted(2)) = 8
           /\ Cardinality(Accepted(3)) = 8
           /\ Cardinality(Accepted(4)) = 4
           /\ accepted = Accepted(1) \cup Accepted(2) \cup Accepted(3) \cup Accepted(4)
           /\ accepted \cap emotive = {}
           /\ \A n \in accepted \cup emotive :
                /\ KindOfTag(n).ok
                /\ KindOfTag(n).kind \in 0..4
                /\ KindOfTag(n).kind = 0 <=> n \in emotive
                /\ \A L \in 1..4 : KindOfTag(n).kind = L <=> n \in Accepted(L)

C8_Witness ==
    /\ rres.fn = "dyad_params"
    /\ rq = "hope"
    /\ rres.ok
    /\ rres.kind = 2
    /\ KindOfTag("hope").kind = 2

(***************************************************************************)
(* C9: every dyad name that the documentation of dyad_params lists as a    *)
(* possible value is accepted by dyad_params with the family under which   *)
(* it is listed, and every name dyad_params accepts is listed there.       *)
(***************************************************************************)
DocumentedLevel(name) ==
    IF name \in Range(DocumentedDyads.primary) THEN 1
    ELSE IF name \in Range(DocumentedDyads.secondary) THEN 2
    ELSE IF name \in Range(DocumentedDyads.tertiary) THEN 3
    ELSE -1

C9_DocumentedDyadsAccepted ==
    (rres.fn = "dyad_params")
    => /\ DocumentedLevel(rq) # -1 => (rres.ok /\ rres.kind = DocumentedLevel(rq))
       /\ rres.ok => DocumentedLevel(rq) # -1

(***************************************************************************)
(* C10: with a normalization reference n, every geometric length of a      *)
(* petal (the lens of the fill, the band radii a and a+b, the outer        *)
(* border) is the raw value divided by n once, before the geometry; the    *)
(* scores joy 0.8 and trust 0.4 with n = 0.8 give lengths 1 and 0.5; and   *)
(* the shapes of an entry are those its petal routine draws for the        *)
(* pre-divided score with the normalization off.                           *)
(***************************************************************************)
BandOps  == {"band_fill", "band_edge", "band_overlay"}
ShapeOps == {"underlay", "fill", "half_left", "half_right", "border"} \cup BandOps

Shapes(ops) == SelectSeq(ops, LAMBDA op : op.op \in ShapeOps)

PreDivided(score, n) ==
    [iter |-> score.iter,
     v    |-> [i \in DOMAIN score.v |-> IF RZero(n) THEN score.v[i] ELSE RDiv(score.v[i], n)]]

DrawnUnnormalized(key, score) ==
    IF RegistryKind(key) = 0
    THEN _draw_emotion_petal(key, score, opts.highlight_emotions, opts.show_intensity_labels,
                             opts.show_coordinates, opts.height_width_ratio, R(0))
    ELSE _draw_dyad_petal(key, score.v[1], opts.show_coordinates, opts.height_width_ratio, R(0))

C10_NormalizedOnce ==
    (PlutchikRun /\ ~RZero(opts.normalize))
    => \A i \in DOMAIN Processed :
         LET e      == Processed[i]
             n      == opts.normalize
             total  == RDiv(Sum(e.score.v), n)
             angle  == IF RegistryKind(e.key) = 0 THEN emo_params(e.key).angle
                       ELSE dyad_params(e.key).angle
             shapes == Shapes(OpsOf(e.key))
             bands  == SelectSeq(shapes, LAMBDA op : op.op \in BandOps)
             a      == RDiv(e.score.v[1], n)
             ab     == RDiv(RAdd(e.score.v[1], e.score.v[2]), n)
         IN  /\ \E j \in DOMAIN shapes : shapes[j].op = "border"
             /\ \A j \in DOMAIN shapes :
                  /\ shapes[j].geom = Lens(total, angle, opts.height_width_ratio)
                  /\ shapes[j].op \notin BandOps => shapes[j].size = total
             /\ e.score.iter =>
                  [j \in DOMAIN bands |-> bands[j].size] =
                      (IF RZero(ab) THEN <<>> ELSE <<ab, ab>>) \o
                      (IF RZero(a) THEN <<>> ELSE <<a, a, a, a>>)
             /\ \A j \in DOMAIN bands : bands[j].radius = RAdd(bands[j].size, offset)
             /\ shapes = Shapes(DrawnUnnormalized(e.key, PreDivided(e.score, n)))

C10_Witness ==
    /\ pc = "done"
    /\ opts.normalize = Rat(4, 5)
    /\ scores = <<Entry("joy", S(4, 5)), Entry("trust", S(2, 5))>>
    /\ \E j \in DOMAIN surface :
         /\ surface[j].op = "fill" /\ surface[j].key = "joy"
         /\ surface[j].size = R(1)
         /\ surface[j].geom.h = RAdd(R(1), offset)
    /\ \E j \in DOMAIN surface :
         /\ surface[j].op = "border" /\ surface[j].key = "trust"
         /\ surface[j].size = Rat(1, 2)

(***************************************************************************)
(* C11: for a dyad entry whose score is 0 the drawing of the petal is      *)
(* skipped entirely: no white underlay, no half-petal fill and no outer    *)
(* border is appended to the surface for that entry.                       *)
(***************************************************************************)
C11_ZeroDyadSkipped ==
    PlutchikRun =>
        \A i \in DOMAIN Processed :
            (RegistryKind(Processed[i].key) \in 1..4 /\ RZero(Processed[i].score.v[1]))
            => \A j \in DOMAIN surface :
                 surface[j].key = Processed[i].key
                 => surface[j].op \notin {"underlay", "half_left", "half_right", "border"}

(***************************************************************************)
(* Geometry of a lens, in exact arithmetic                                 *)
(***************************************************************************)
Origin == <<Coord(R(0)), Coord(R(0))>>

\* the square of the distance of two points
Dist2(p, q) ==
    FAdd(FMul(FSub(p[1], q[1]), FSub(p[1], q[1])),
         FMul(FSub(p[2], q[2]), FSub(p[2], q[2])))

\* the point at distance t from the origin on the axis of the petal
AxisPoint(petal, t) == _rotate_point(<<Coord(R(0)), Coord(t)>>, petal.angle)

\* point lies on both circles of the petal, hence is a vertex of the lens
OnBothCircles(petal, point) ==
    LET c == Centres(petal)
    IN  /\ Dist2(c.right, point) = Coord(petal.r2)
        /\ Dist2(c.left, point) = Coord(petal.r2)

RLe(a, b) == ~RLt(b, a)

\* the lens has its far vertex on the axis at distance petal.h, which is
\* further from the origin than radius
Beyond(petal, radius) ==
    /\ OnBothCircles(petal, AxisPoint(petal, petal.h))
    /\ RLt(radius, petal.h)

\* a circle through the origin lies inside the disk of the given radius about
\* the origin when its diameter is at most that radius; so does then the lens
InsideDisk(petal, radius) ==
    /\ OnBothCircles(petal, Origin)
    /\ RLe(RMul(R(4), petal.r2), RMul(radius, radius))

OpsNamed(key, name) == SelectSeq(surface, LAMBDA op : op.key = key /\ op.op = name)

\* the entry the loop has just been through, if any
LastProcessed == IF Len(Processed) > 0 THEN {Processed[Len(Processed)]} ELSE {}

(***************************************************************************)
(* C12: an emotion entry with score 0 is still drawn (underlay, fill and   *)
(* border) but its lens lies inside the neutral disk of radius offset,     *)
(* while the lens of an emotion entry with a score above 0 reaches beyond  *)
(* that disk; for joy 0.5 and the seven other emotions 0, exactly one      *)
(* petal, joy, extends outside the neutral disk.                           *)
(***************************************************************************)
C12_ZeroPetalInsideDisk ==
    PlutchikRun =>
      /\ \A e \in LastProcessed :
           RegistryKind(e.key) = 0 =>
             /\ Len(OpsNamed(e.key, "underlay")) = 1
             /\ Len(OpsNamed(e.key, "fill")) = 1
             /\ Len(OpsNamed(e.key, "border")) = 1
             /\ LET petal == OpsNamed(e.key, "fill")[1].geom
                IN  /\ OpsNamed(e.key, "underlay")[1].geom = petal
                    /\ OpsNamed(e.key, "border")[1].geom = petal
                    /\ IF RZero(Sum(e.score.v))
                       THEN InsideDisk(petal, offset) /\ ~RLt(offset, petal.h)
                       ELSE Beyond(petal, offset)
      /\ (pc = "done" /\ scores = JoyOnly) =>
           {k \in Range(Keys(scores)) : RLt(offset, OpsNamed(k, "fill")[1].geom.h)} = {"joy"}

C12_Witness ==
    /\ pc = "done"
    /\ scores = JoyOnly
    /\ OpsNamed("trust", "fill")[1].geom.h = offset
    /\ InsideDisk(OpsNamed("trust", "border")[1].geom, offset)
    /\ OpsNamed("joy", "fill")[1].geom.h = Rat(13, 20)
    /\ Beyond(OpsNamed("joy", "fill")[1].geom, offset)

(***************************************************************************)
(* C13: for a dyad ScoreSet, after the last dyad petal has been drawn      *)
(* plutchik appends exactly one family-level annotation, whose text is the *)
(* numeral 1, 2 or 3 for the levels 1 to 3 and "opp." for level 4,         *)
(* followed by exactly one dotted reference circle of radius 1.6; for an   *)
(* emotion ScoreSet neither is appended; for the whole opposite family     *)
(* scored 0.5 exactly 4 bicolor petals are drawn.                          *)
(***************************************************************************)
Positions(name) == {j \in DOMAIN surface : surface[j].op = name}

LevelText(level) ==
    CASE level = 1 -> "1"
      [] level = 2 -> "2"
      [] level = 3 -> "3"
      [] level = 4 -> "opp."

C13_LevelAnnotation ==
    PlutchikRun =>
      /\ (Len(dyads) > 0 /\ pc \in {"limits", "done"}) =>
           /\ Positions("level_annotation") = {Len(surface) - 1}
           /\ Positions("track") = {Len(surface)}
           /\ surface[Len(surface) - 1].text.s = LevelText(RegistryKind(dyads[1].key))
           /\ surface[Len(surface)].radius = Rat(16, 10)
           /\ \A i \in DOMAIN dyads :
                \E j \in 1..(Len(surface) - 2) :
                    surface[j].key = dyads[i].key /\ surface[j].op = "border"
      /\ ~(Len(dyads) > 0 /\ pc \in {"limits", "done"}) =>
           Positions("level_annotation") \cup Positions("track") = {}
      /\ (pc = "done" /\ scores = OppositeFamily) =>
           /\ Cardinality(Positions("half_left")) = 4
           /\ Cardinality(Positions("half_right")) = 4
           /\ \A i \in DOMAIN scores :
                /\ Len(OpsNamed(scores[i].key, "half_left")) = 1
                /\ Len(OpsNamed(scores[i].key, "half_right")) = 1
                /\ OpsNamed(scores[i].key, "half_left")[1].color
                     # OpsNamed(scores[i].key, "half_right")[1].color

C13_Witness ==
    /\ pc = "done"
    /\ scores = OppositeFamily
    /\ surface[Len(surface) - 1].op = "level_annotation"
    /\ surface[Len(surface) - 1].text.s = "opp."
    /\ surface[Len(surface)].op = "track"
    /\ Cardinality(Positions("half_left")) = 4

(***************************************************************************)
(* C14: after a successful call the view bounds on both axes are +/-1.6    *)
(* for an emotion ScoreSet with the guides shown and +/-1.2 without them,  *)
(* and 0.1 larger in each case for a dyad ScoreSet; the axis decorations   *)
(* are off; a title is set only if one was supplied, and its size is the   *)
(* font size unless a title size was given.                                *)
(***************************************************************************)
C14_ViewBounds ==
    (PlutchikRun /\ pc = "done") =>
      LET dyadic == RegistryKind(scores[1].key) \in 1..4
      IN  /\ view.lim = (CASE  opts.show_coordinates /\ ~dyadic -> Rat(16, 10)
                           [] ~opts.show_coordinates /\ ~dyadic -> Rat(12, 10)
                           []  opts.show_coordinates /\  dyadic -> Rat(17, 10)
                           [] ~opts.show_coordinates /\  dyadic -> Rat(13, 10))
          /\ view.axis_off
          /\ view.title = opts.title
          /\ opts.title = "" => view.title_size = 0
          /\ (opts.title # "" /\ opts.title_size = 0) => view.title_size = 15
          /\ (opts.title # "" /\ opts.title_size # 0) => view.title_size = opts.title_size

C14_Witness ==
    /\ pc = "done"
    /\ scores = OppositeFamily
    /\ opts.show_coordinates
    /\ opts.title = "Emotions"
    /\ opts.title_size = 0
    /\ view = [lim |-> Rat(17, 10), axis_off |-> TRUE, title |-> "Emotions", title_size |-> 15]

(***************************************************************************)
(* C15: an emotion petal is in the shadowed ('opaque') state if and only   *)
(* if highlight_emotions is not 'all' and the emotion is not a member of   *)
(* it; in the opaque state the colour fill has alpha 0, the border alpha   *)
(* 0.8 and the score label is light grey; otherwise the petal is regular:  *)
(* fill alpha 0.5 for a scalar score, 0.3 for a 3-tuple, border alpha 1.   *)
(***************************************************************************)
Shadowed(key) ==
    ~opts.highlight_emotions.all /\ key \notin opts.highlight_emotions.names

C15_HighlightStates ==
    PlutchikRun =>
      \A e \in LastProcessed :
        RegistryKind(e.key) = 0 =>
          LET fill   == OpsNamed(e.key, "fill")
              border == OpsNamed(e.key, "border")
              labels == OpsNamed(e.key, "score_label")
          IN  /\ Len(fill) = 1
              /\ Len(border) = 1
              /\ opts.show_coordinates <=> Len(labels) > 0
              /\ IF Shadowed(e.key)
                 THEN /\ fill[1].alpha = R(0)
                      /\ border[1].alpha = Rat(8, 10)
                      /\ \A j \in DOMAIN labels : labels[j].color = "lightgrey"
                 ELSE /\ fill[1].alpha = (IF e.score.iter THEN Rat(3, 10) ELSE Rat(5, 10))
                      /\ border[1].alpha = R(1)
                      /\ \A j \in DOMAIN labels :
                           /\ labels[j].color = emo_params(e.key).color
                           /\ labels[j].color # "lightgrey"

C15_Witness ==
    /\ pc = "done"
    /\ scores = emo1
    /\ opts.highlight_emotions = Only(selected_emotions)
    /\ opts.show_coordinates
    /\ OpsNamed("trust", "fill")[1].alpha = R(0)
    /\ OpsNamed("trust", "border")[1].alpha = Rat(8, 10)
    /\ OpsNamed("trust", "score_label")[1].color = "lightgrey"
    /\ OpsNamed("joy", "fill")[1].alpha = Rat(3, 10)
    /\ OpsNamed("joy", "border")[1].alpha = R(1)

(***************************************************************************)
(* C16: with the guides shown, an emotion with a 3-tuple score (a, b, c)   *)
(* gets one numeric label per band, showing a, b and c, and an emotion     *)
(* with a scalar score gets exactly one label; the single cumulative label *)
(* showing a+b+c is used for a 3-tuple only when show_intensity_labels is  *)
(* neither 'all' nor contains that emotion.                                *)
(***************************************************************************)
LabelValues(key) ==
    LET labels == OpsNamed(key, "score_label")
    IN  [j \in DOMAIN labels |-> labels[j].text.v]

BandLabelled(key) ==
    opts.show_intensity_labels.all \/ key \in opts.show_intensity_labels.names

C16_IntensityLabels ==
    PlutchikRun =>
      \A e \in LastProcessed :
        RegistryKind(e.key) = 0 =>
          LabelValues(e.key) =
            (IF ~opts.show_coordinates THEN <<>>
             ELSE IF ~e.score.iter THEN <<e.score.v[1]>>
             ELSE IF BandLabelled(e.key) THEN e.score.v
             ELSE <<RAdd(RAdd(e.score.v[1], e.score.v[2]), e.score.v[3])>>)

C16_Witness ==
    /\ pc = "done"
    /\ scores = emo1
    /\ opts.show_coordinates
    /\ opts.show_intensity_labels = Only(selected_emotions)
    /\ LabelValues("joy") = <<Rat(3, 10), Rat(2, 10), Rat(5, 10)>>
    /\ LabelValues("trust") = <<Rat(6, 10)>>

(***************************************************************************)
(* C17: _rotate_point takes its angle in degrees and turns the point       *)
(* counter-clockwise about the origin: the rotation by 0 and the rotation  *)
(* by 360 are the identity, a rotation by theta followed by one by -theta  *)
(* gives the point back, and (0,1) rotated by -90 is (1,0).  Coordinates   *)
(* are exact here (no rounding of sines and cosines).                      *)
(***************************************************************************)
PointAt(x, y) == <<Coord(R(x)), Coord(R(y))>>

LensOps == {"underlay", "fill", "half_left", "half_right", "border"}

LensesOf(key) == SelectSeq(surface, LAMBDA op : op.key = key /\ op.op \in LensOps)

\* s is the score after normalization
LensOfScore(petal, s) ==
    /\ petal.x = RMul(opts.height_width_ratio, s)
    /\ petal.y = RDiv(RAdd(s, offset), R(2))
    /\ petal.r2 = RAdd(RMul(petal.x, petal.x), RMul(petal.y, petal.y))
    /\ petal.h = RAdd(s, offset)
    /\ s = R(1) => petal.h = Rat(115, 100)
    /\ OnBothCircles(petal, AxisPoint(petal, RAdd(s, offset)))
    \* the axis meets each circle in two points, this one and the origin
    /\ OnBothCircles(petal, Origin)

C18_LensExtent ==
    PlutchikRun =>
      \A e \in LastProcessed :
        LET s      == Normalized(Sum(e.score.v), opts.normalize)
            lenses == LensesOf(e.key)
        IN  /\ RLe(R(0), s)
            /\ Len(lenses) > 0
            /\ \A j \in DOMAIN lenses :
                 /\ lenses[j].size = s
                 /\ lenses[j].geom = lenses[1].geom
            /\ LensOfScore(lenses[1].geom, s)

C18_Witness ==
    /\ pc = "done"
    /\ scores = emo2
    /\ opts.height_width_ratio = Rat(1, 2)
    /\ OpsNamed("fear", "fill")[1].size = R(1)
    /\ OpsNamed("fear", "fill")[1].geom.h = Rat(115, 100)
    /\ OpsNamed("fear", "fill")[1].geom.x = Rat(1, 2)
    /\ OnBothCircles(OpsNamed("fear", "fill")[1].geom,
                     AxisPoint(OpsNamed("fear", "fill")[1].geom, Rat(115, 100)))

(***************************************************************************)
(* C19: every petal lens starts at the boundary of the neutral disk, at    *)
(* distance offset from the origin along the axis of the petal, and never  *)
(* at the true origin: for no score does the lens contain or touch the     *)
(* origin.                                                                 *)
(***************************************************************************)
FRational(a) == RZero(a[2]) /\ RZero(a[3]) /\ RZero(a[4])

\* point lies in the closed lens: within or on both circles
InLens(petal, point) ==
    LET c  == Centres(petal)
        dr == Dist2(c.right, point)
        dl == Dist2(c.left, point)
    IN  /\ FRational(dr) /\ RLe(dr[1], petal.r2)
        /\ FRational(dl) /\ RLe(dl[1], petal.r2)

C19_LensStartsAtDisk ==
    PlutchikRun =>
      \A e \in LastProcessed :
        \A j \in DOMAIN LensesOf(e.key) :
          /\ ~InLens(LensesOf(e.key)[j].geom, Origin)
          /\ OnBothCircles(LensesOf(e.key)[j].geom,
                           AxisPoint(LensesOf(e.key)[j].geom, offset))

(***************************************************************************)
(* C20: every emotion entry gets exactly one outer border, an outline      *)
(* computed with the same lens parameters (angle, height/width ratio,      *)
(* offset, normalization) as the fill of the petal and sized by the total  *)
(* score of the petal: the scalar score, or a+b+c for a 3-tuple, whatever  *)
(* the values of the single bands.                                         *)
(***************************************************************************)
C20_OneOuterBorder ==
    PlutchikRun =>
      \A e \in LastProcessed :
        RegistryKind(e.key) = 0 =>
          LET border == OpsNamed(e.key, "border")
              fill   == OpsNamed(e.key, "fill")
              total  == IF e.score.iter
                        THEN RAdd(RAdd(e.score.v[1], e.score.v[2]), e.score.v[3])
                        ELSE e.score.v[1]
              size   == IF RZero(opts.normalize) THEN total ELSE RDiv(total, opts.normalize)
          IN  /\ Len(border) = 1
              /\ Len(fill) = 1
              /\ border[1].size = size
              /\ border[1].geom = fill[1].geom
              /\ border[1].geom.angle = emo_params(e.key).angle
              /\ border[1].geom.h = RAdd(size, offset)
              /\ border[1].geom.x = RMul(opts.height_width_ratio, size)
              /\ surface[Len(surface)] = border[1]

C20_Witness ==
    /\ pc = "done"
    /\ scores = emo1
    /\ Len(OpsNamed("anger", "border")) = 1
    /\ OpsNamed("anger", "border")[1].size = Rat(64, 100)
    /\ OpsNamed("anger", "border")[1].geom = OpsNamed("anger", "fill")[1].geom
    /\ OpsNamed("joy", "border")[1].size = R(1)

(***************************************************************************)
(* C21: for a 3-tuple score (a, b, c) the petal is the lens sized by       *)
(* a+b+c, and two nested sub-regions are carved as the intersection of     *)
(* that lens with the origin-centred disks of radius a+offset and          *)
(* a+b+offset; of the three bands it is the middle one, between the radii  *)
(* a and a+b, that receives the second semi-transparent overlay.           *)
(***************************************************************************)
\* the overlay is laid on lens /\ disk(radius): it covers the band between the
\* radii lo and hi (lo < hi) when the disk reaches hi, and leaves the band
\* free when the disk ends at or before lo
Covers(op, lo, hi)     == RLe(RAdd(hi, offset), op.radius)
LeavesFree(op, lo, hi) == RLe(op.radius, RAdd(lo, offset))

Bands(e) ==
    [a   |-> Normalized(e.score.v[1], opts.normalize),
     ab  |-> Normalized(RAdd(e.score.v[1], e.score.v[2]), opts.normalize),
     abc |-> Normalized(Sum(e.score.v), opts.normalize)]

\* the lens is sized by a+b+c and every section is that lens cut by a disk of
\* radius a+offset or a+b+offset
Sections(e) ==
    LET fill  == OpsNamed(e.key, "fill")
        bands == OpsNamed(e.key, "band_fill")
    IN  /\ Len(fill) = 1
        /\ fill[1].size = Bands(e).abc
        /\ \A j \in DOMAIN bands :
             /\ bands[j].geom = fill[1].geom
             /\ bands[j].radius \in {RAdd(Bands(e).a, offset), RAdd(Bands(e).ab, offset)}

ThreeBands(e) == RLt(R(0), Bands(e).a) /\ RLt(Bands(e).a, Bands(e).ab)

CompleteShape(e) ==
    /\ Len(OpsNamed(e.key, "underlay")) = 1
    /\ Len(OpsNamed(e.key, "border")) = 1
    /\ IF RegistryKind(e.key) = 0
       THEN Len(OpsNamed(e.key, "fill")) = 1
       ELSE Len(OpsNamed(e.key, "half_left")) = 1 /\ Len(OpsNamed(e.key, "half_right")) = 1

C22_IncrementalValidation ==
    (PlutchikRun /\ pc = "raised" /\ raised.type = "InvalidScore") =>
      /\ it \in DOMAIN Active
      /\ FirstOutOfRange(Active, it)
      /\ raised.key = Active[it].key
      /\ Cardinality(Positions("guide")) = (IF opts.show_coordinates THEN 6 ELSE 0)
      /\ Cardinality(Positions("disk")) = 1
      /\ \A g \in Positions("guide") : \A d \in Positions("disk") : g < d
      /\ \A j \in DOMAIN surface :
           surface[j].key # "" => \A d \in Positions("disk") : d < j
      /\ \A i \in 1..(it - 1) :
           (RegistryKind(Active[i].key) = 0 \/ ~RZero(Active[i].score.v[1]))
           => CompleteShape(Active[i])
      /\ \A i \in it..Len(Active) : OpsOf(Active[i].key) = <<>>
      /\ Positions("level_annotation") \cup Positions("track") = {}
      /\ view = FreshView

C22_Witness ==
    /\ pc = "raised"
    /\ raised.type = "InvalidScore"
    /\ opts.show_coordinates
    /\ it = 2
    /\ scores = << Entry("joy", S(2, 5)), Entry("trust", T(50, 40, 20)) >>
    /\ Cardinality(Positions("guide")) = 6
    /\ CompleteShape(scores[1])
    /\ OpsOf("trust") = <<>>
    /\ view = FreshView

(***************************************************************************)
(* C23: in the final stacking order (by z-order, ties broken by insertion  *)
(* order) every guide circle lies below the neutral disk, and the neutral  *)
(* disk lies beneath every petal shape: every petal underlay, colour fill  *)
(* and border is above it.                                                 *)
(***************************************************************************)
\* surface[i] is painted before surface[j]
Below(i, j) ==
    \/ surface[i].z < surface[j].z
    \/ surface[i].z = surface[j].z /\ i < j

PetalShapeOps == {"underlay", "fill", "half_left", "half_right", "border"}

GuidesBelowDisk ==
    \A d \in Positions("disk") : \A g \in Positions("guide") : Below(g, d)

C23_Original ==
    PlutchikRun =>
      /\ GuidesBelowDisk
      /\ \A d \in Positions("disk") :
           \A j \in DOMAIN surface :
             surface[j].op \in PetalShapeOps => Below(d, j)

\* C23, as the code has it: the neutral disk (zorder 15) is stacked above the
\* guide circles and above every petal underlay, colour fill, band and border,
\* so it masks the part of each petal that lies within radius offset
C23_DiskAboveShapes ==
    PlutchikRun =>
      /\ GuidesBelowDisk
      /\ \A d \in Positions("disk") :
           \A j \in DOMAIN surface :
             surface[j].op \in (PetalShapeOps \cup BandOps) => Below(j, d)

C23_Witness ==
    /\ pc = "done"
    /\ scores = emo1
    /\ opts.show_coordinates
    /\ Cardinality(Positions("guide")) = 6
    /\ \E d \in Positions("disk") :
         /\ surface[d].z = 15
         /\ \E j \in Positions("fill") : d < j /\ surface[j].z = 10
         /\ \E j \in Positions("underlay") : d < j /\ surface[j].z = 0
         /\ \E j \in Positions("border") : d < j /\ surface[j].z = 1

(***************************************************************************)
(* C24: the draw operations are appended in this order: guide circles,     *)
(* neutral disk, then for each entry in iteration order its white          *)
(* underlay, its band and colour fills, its outer border and then its      *)
(* spine and labels (with the arcs of a dyad), and after all the entries   *)
(* the level annotation of the dyads and finally the reference circle.     *)
(***************************************************************************)
SpineOps == {"spine_line", "spine_tick", "name_label", "score_label",
             "arc_right", "arc_left", "emo_label_right", "emo_label_left"}
FillOps  == {"fill", "half_left", "half_right"} \cup BandOps

PosOf(key, names) == {j \in DOMAIN surface : surface[j].key = key /\ surface[j].op \in names}
Before(A, B) == \A a \in A : \A b \in B : a < b

\* what the order of the petals and of the frame around them has in common
FrameOrder ==
    /\ Before(Positions("guide") \cup Positions("tick_label"), Positions("disk"))
    /\ \A j \in DOMAIN surface : surface[j].key # "" => Before(Positions("disk"), {j})
    /\ \A i \in DOMAIN Processed : \A k \in DOMAIN Processed :
         i < k => Before(PosOf(Processed[i].key, SpineOps \cup ShapeOps),
                         PosOf(Processed[k].key, SpineOps \cup ShapeOps))
    /\ \A i \in DOMAIN Processed :
         /\ Before(PosOf(Processed[i].key, {"underlay"}), PosOf(Processed[i].key, FillOps))
         /\ Before(PosOf(Processed[i].key, FillOps), PosOf(Processed[i].key, {"border"}))
         /\ PosOf(Processed[i].key, {"border"}) # {}
    /\ \A j \in DOMAIN surface :
         surface[j].key # "" => Before({j}, Positions("level_annotation"))
    /\ Before(Positions("level_annotation"), Positions("track"))

C24_Original ==
    PlutchikRun =>
      /\ FrameOrder
      /\ \A i \in DOMAIN Processed :
           Before(PosOf(Processed[i].key, ShapeOps), PosOf(Processed[i].key, SpineOps))

\* C24, as the code has it: the spine and the labels of an entry (with the arcs
\* of a dyad) are appended first, and its underlay, fills and border after them
C24_SpineBeforeShapes ==
    PlutchikRun =>
      /\ FrameOrder
      /\ \A i \in DOMAIN Processed :
           /\ Before(PosOf(Processed[i].key, SpineOps), PosOf(Processed[i].key, ShapeOps))
           /\ opts.show_coordinates <=> PosOf(Processed[i].key, SpineOps) # {}

C24_Witness ==
    /\ pc = "done"
    /\ opts.show_coordinates
    /\ scores = << Entry("love", S(4, 5)), Entry("optimism", S(4, 5)) >>
    /\ Positions("guide") = 1..6
    /\ Positions("disk") = {7}
    /\ PosOf("love", SpineOps) = 8..15
    /\ PosOf("love", {"underlay"}) = {16}
    /\ PosOf("love", {"border"}) = {19}
    /\ PosOf("optimism", SpineOps) = 20..27
    /\ Positions("level_annotation") = {32}
    /\ Positions("track") = {33}

(***************************************************************************)
(* C25: for every dyad, each colour of its colour pair is the colour that  *)
(* emo_params gives to the corresponding emotion of its emotion pair; and  *)
(* the first emotion is on the counter-clockwise side and the second on    *)
(* the clockwise side in the half-petal fill, in the 18-degree arc         *)
(* segment and in the emotion-name label, each name being drawn in the     *)
(* colour of its own emotion.                                              *)
(***************************************************************************)
Cross(a, b) == FSub(FMul(a[1], b[2]), FMul(a[2], b[1]))

\* 1 when b is counter-clockwise of a, -1 when clockwise, 0 when aligned
Turn(a, b) ==
    LET c == Cross(a, b)
    IN  IF ~FRational(c) THEN 2
        ELSE IF RLt(R(0), c[1]) THEN 1
        ELSE IF RLt(c[1], R(0)) THEN -1 ELSE 0

\* on which side of the axis of its petal a half petal is cut
SideOfHalf(op) ==
    LET sq    == Square(op.geom, op.span)
        turns == {Turn(AxisPoint(op.geom, R(1)), sq[i]) : i \in 1..4}
    IN  IF turns = {0, 1} THEN "ccw" ELSE IF turns = {0, -1} THEN "cw" ELSE "both"

\* angles grow counter-clockwise
SideOfSpan(op, angle) ==
    IF RLe(angle, op.span[1]) /\ RLt(angle, op.span[2]) THEN "ccw"
    ELSE IF RLe(op.span[2], angle) /\ RLt(op.span[1], angle) THEN "cw"
    ELSE "both"

OpsIn(key, names) == SelectSeq(surface, LAMBDA op : op.key = key /\ op.op \in names)

\* among ops there is exactly one of the colour, and it is on the side
OneOn(ops, color, side, Side(_)) ==
    /\ Cardinality({j \in DOMAIN ops : ops[j].color = color}) = 1
    /\ \A j \in DOMAIN ops : ops[j].color = color => Side(ops[j]) = side

C25_DyadColoursAndSides ==
    /\ (rres.fn = "dyad_params" /\ rres.ok) =>
         \A i \in 1..2 :
           /\ emo_params(rres.emos[i]).ok
           /\ rres.cmap[i] = emo_params(rres.emos[i]).color
    /\ PlutchikRun =>
         \A e \in LastProcessed :
           RegistryKind(e.key) \in 1..4 =>
             LET p      == dyad_params(e.key)
                 first  == emo_params(p.emos[1]).color
                 second == emo_params(p.emos[2]).color
                 halves == OpsIn(e.key, {"half_left", "half_right"})
                 arcs   == OpsIn(e.key, {"arc_left", "arc_right"})
                 labels == OpsIn(e.key, {"emo_label_left", "emo_label_right"})
                 Arc(op)   == SideOfSpan(op, p.angle)
             IN  /\ first # second
                 /\ ~RZero(e.score.v[1]) =>
                      /\ Len(halves) = 2
                      /\ OneOn(halves, first, "ccw", SideOfHalf)
                      /\ OneOn(halves, second, "cw", SideOfHalf)
                 /\ Len(arcs) = (IF opts.show_coordinates THEN 2 ELSE 0)
                 /\ Len(labels) = Len(arcs)
                 /\ opts.show_coordinates =>
                      /\ OneOn(arcs, first, "ccw", Arc)
                      /\ OneOn(arcs, second, "cw", Arc)
                      /\ \A j \in DOMAIN arcs : RSub(arcs[j].span[2], arcs[j].span[1]) = R(18)
                      /\ OneOn(labels, first, "ccw", Arc)
                      /\ OneOn(labels, second, "cw", Arc)
                      /\ \A j \in DOMAIN labels :
                           /\ labels[j].color = first <=> labels[j].text.s = p.emos[1]
                           /\ labels[j].color = second <=> labels[j].text.s = p.emos[2]

C25_Witness ==
    /\ pc = "done"
    /\ opts.show_coordinates
    /\ scores = << Entry("guilt", S(4, 5)) >>
    /\ OpsNamed("guilt", "half_left")[1].color = "gold"
    /\ SideOfHalf(OpsNamed("guilt", "half_left")[1]) = "ccw"
    /\ OpsNamed("guilt", "half_right")[1].color = "forestgreen"
    /\ OpsNamed("guilt", "arc_left")[1].span = <<R(-45), R(-27)>>
    /\ OpsNamed("guilt", "arc_left")[1].color = "gold"
    /\ OpsNamed("guilt", "emo_label_right")[1].text.s = "fear"
    /\ OpsNamed("guilt", "emo_label_right")[1].span[1] = R(-54)

(***************************************************************************)
(* C26: emotion keys are case-insensitive: a ScoreSet whose keys are       *)
(* emotion names in any letter case (such as 'Joy' or 'TRUST') is accepted *)
(* and rendered exactly as the ScoreSet with the lower-cased keys.         *)
(***************************************************************************)
C26_CaseInsensitiveKeys ==
    (PlutchikRun /\ Terminal
       /\ KindsOf(LowerKeys(scores)) = {0}
       /\ \A i \in DOMAIN scores : ~OutOfRange(scores[i].score))
    => /\ raised = NoError
       /\ emotions = LowerKeys(scores)
       /\ \A i \in DOMAIN scores :
            /\ Len(OpsNamed(Lower(scores[i].key), "fill")) = 1
            /\ Len(OpsNamed(Lower(scores[i].key), "border")) = 1

(***************************************************************************)
(* C27: an empty ScoreSet is handled as an input error of the caller: it   *)
(* is rejected before anything is drawn, with one of the input-validation  *)
(* errors (unknown name, mixed kinds or invalid score) and never with an   *)
(* internal fault such as an index out of range.                           *)
(***************************************************************************)
InputErrors == {"UnknownName", "MixedKinds", "InvalidScore"}

C27_EmptyScoreSetRejected ==
    (PlutchikRun /\ scores = <<>> /\ pc # "check")
    => /\ pc = "raised"
       /\ surface = <<>>
       /\ raised.type \in InputErrors

(***************************************************************************)
(* C28: every petal that is drawn has a geometric length (the score, or    *)
(* a+b+c, divided by normalize when it is supplied) within [0, 1], so no   *)
(* petal extends past the outermost guide circle of radius 1 + offset; a   *)
(* ScoreSet that passes validation is never drawn with a length above 1,   *)
(* whatever positive normalize is given.                                   *)
(***************************************************************************)
C28_LengthWithinUnit ==
    PlutchikRun =>
      \A e \in LastProcessed :
        LET lenses == LensesOf(e.key)
        IN  \A j \in DOMAIN lenses :
              /\ RLe(R(0), lenses[j].size)
              /\ RLe(lenses[j].size, R(1))
              /\ RLe(lenses[j].geom.h, RAdd(R(1), offset))

(***************************************************************************)
(* C29: dyad petals are never shadowed: their outer border and their score *)
(* label are always drawn in the regular state, the border with alpha 1    *)
(* and the label with alpha 1, never 0.8.                                  *)
(***************************************************************************)
C29_DyadsNeverShadowed ==
    PlutchikRun =>
      \A e \in LastProcessed :
        RegistryKind(e.key) \in 1..4 =>
          LET borders == OpsNamed(e.key, "border")
              labels  == OpsNamed(e.key, "score_label")
          IN  /\ \A j \in DOMAIN borders : borders[j].alpha = R(1)
              /\ \A j \in DOMAIN labels : labels[j].alpha = R(1)

(***************************************************************************)
(* C30: get_amazon_emotions returns a mapping that holds an averaged       *)
(* emotion-score entry for every star rating the plotting code reads       *)
(* afterwards: the keys '1' to '5' are all present, so computing the       *)
(* scores and then plotting the ratings 1 to 5 never looks up a missing    *)
(* key.                                                                    *)
(***************************************************************************)
Ratings == {"1", "2", "3", "4", "5"}

C30_AllRatingsPresent ==
    /\ pc \in {"amazon_plot", "amazon_done", "amazon_raised"} =>
         /\ Ratings \subseteq {rres.emo_scores[j].key : j \in DOMAIN rres.emo_scores}
         /\ \A j \in DOMAIN rres.emo_scores :
              Keys(rres.emo_scores[j].score) = AmazonKeys
    /\ pc # "amazon_raised"

=============================================================================
